---------------------------- MODULE Spec2Model ----------------------------
(***************************************************************************)
(* Circular reference graph viewer: graph construction (graph-builder.js,  *)
(* data-loader.js), cycle detection (cycle detector module) and the        *)
(* filter engine (filters.js).                                             *)
(*                                                                         *)
(* JavaScript strings are modelled as sequences of one-character strings,  *)
(* so that normalizeTitle, toLowerCase, includes and the regular           *)
(* expressions of data-loader.js are computed character by character.      *)
(* A missing / null / undefined / '' string field is the empty sequence:   *)
(* the code reads every such field through `x || default` or `if (x)`.     *)
(* A null year is NoYear (0), which is falsy like null.                    *)
(***************************************************************************)
EXTENDS Integers, Sequences, FiniteSets, TLC

(***************************************************************************)
(* Characters and string primitives                                        *)
(***************************************************************************)
UpperSeq == <<"A","B","C","D","E","F","G","H","I","J","K","L","M",
              "N","O","P","Q","R","S","T","U","V","W","X","Y","Z">>

LowerSeq == <<"a","b","c","d","e","f","g","h","i","j","k","l","m",
              "n","o","p","q","r","s","t","u","v","w","x","y","z">>

DigitSeq == <<"0","1","2","3","4","5","6","7","8","9">>

IsUpper(c) == \E i \in 1..Len(UpperSeq) : UpperSeq[i] = c

IsLower(c) == \E i \in 1..Len(LowerSeq) : LowerSeq[i] = c

IsDigit(c) == \E i \in 1..Len(DigitSeq) : DigitSeq[i] = c

\* \w of a JavaScript regular expression
IsWordChar(c) == IsUpper(c) \/ IsLower(c) \/ IsDigit(c) \/ c = "_"

\* \s of a JavaScript regular expression (the whitespace that occurs in titles)
IsSpace(c) == c \in {" ", "\t", "\n"}

DigitVal(c) == (CHOOSE i \in 1..Len(DigitSeq) : DigitSeq[i] = c) - 1

ToLowerChar(c) ==
    IF IsUpper(c) THEN LowerSeq[CHOOSE i \in 1..Len(UpperSeq) : UpperSeq[i] = c] ELSE c

\* String.prototype.toLowerCase
toLowerCase(s) == [i \in 1..Len(s) |-> ToLowerChar(s[i])]

\* String.prototype.includes
includes(s, sub) ==
    \E i \in 1..(Len(s) + 1) :
        /\ i + Len(sub) - 1 <= Len(s)
        /\ SubSeq(s, i, i + Len(sub) - 1) = sub

\* String.prototype.trim
RECURSIVE trimStart(_)
trimStart(s) == IF s # <<>> /\ IsSpace(Head(s)) THEN trimStart(Tail(s)) ELSE s

RECURSIVE trimEnd(_)
trimEnd(s) ==
    IF s # <<>> /\ IsSpace(s[Len(s)]) THEN trimEnd(SubSeq(s, 1, Len(s) - 1)) ELSE s

trim(s) == trimEnd(trimStart(s))

(***************************************************************************)
(* data-loader.js: normalizeTitle and the other pure helpers               *)
(***************************************************************************)
\* last index j >= i such that s[i..j] satisfy the character class P; i-1 if none
RECURSIVE ZeroRunEnd(_, _)
ZeroRunEnd(s, i) ==
    IF i <= Len(s) /\ s[i] = "0" THEN ZeroRunEnd(s, i + 1) ELSE i - 1

RECURSIVE SpaceRunEnd(_, _)
SpaceRunEnd(s, i) ==
    IF i <= Len(s) /\ IsSpace(s[i]) THEN SpaceRunEnd(s, i + 1) ELSE i - 1

\* normalized.replace(/\b0+(\d)/g, '$1'), scanning from index i
RECURSIVE StripLeadingZeros(_, _)
StripLeadingZeros(s, i) ==
    IF i > Len(s) THEN <<>>
    ELSE IF s[i] = "0" /\ (i = 1 \/ ~IsWordChar(s[i - 1]))
         THEN LET j == ZeroRunEnd(s, i)
              IN  IF j < Len(s) /\ IsDigit(s[j + 1])
                  THEN <<s[j + 1]>> \o StripLeadingZeros(s, j + 2)
                  ELSE IF j > i
                       THEN <<"0">> \o StripLeadingZeros(s, j + 1)
                       ELSE <<s[i]>> \o StripLeadingZeros(s, i + 1)
         ELSE <<s[i]>> \o StripLeadingZeros(s, i + 1)

\* normalized.replace(/no\.\s*/gi, 'no '), scanning from index i
RECURSIVE StandardizeNo(_, _)
StandardizeNo(s, i) ==
    IF i > Len(s) THEN <<>>
    ELSE IF /\ i + 2 <= Len(s)
            /\ ToLowerChar(s[i]) = "n"
            /\ ToLowerChar(s[i + 1]) = "o"
            /\ s[i + 2] = "."
         THEN <<"n", "o", " ">> \o StandardizeNo(s, SpaceRunEnd(s, i + 3) + 1)
         ELSE <<s[i]>> \o StandardizeNo(s, i + 1)

\* normalized.replace(/\s+/g, ' '), scanning from index i
RECURSIVE CollapseWhitespace(_, _)
CollapseWhitespace(s, i) ==
    IF i > Len(s) THEN <<>>
    ELSE IF IsSpace(s[i])
         THEN <<" ">> \o CollapseWhitespace(s, SpaceRunEnd(s, i) + 1)
         ELSE <<s[i]>> \o CollapseWhitespace(s, i + 1)

normalizeTitle(title) ==
    IF title = <<>> THEN <<>>
    ELSE LET lowered  == toLowerCase(title)
             nozeros  == StripLeadingZeros(lowered, 1)
             standard == StandardizeNo(nozeros, 1)
         IN  trim(CollapseWhitespace(standard, 1))

NoYear == 0

\* dateString.match(/(\d{4})/) and parseInt(match[1], 10)
RECURSIVE FirstFourDigits(_, _)
FirstFourDigits(s, i) ==
    IF i + 3 > Len(s) THEN NoYear
    ELSE IF \A k \in i..(i + 3) : IsDigit(s[k])
         THEN DigitVal(s[i]) * 1000 + DigitVal(s[i + 1]) * 100
              + DigitVal(s[i + 2]) * 10 + DigitVal(s[i + 3])
         ELSE FirstFourDigits(s, i + 1)

extractYearFromDate(dateString) ==
    IF dateString = <<>> THEN NoYear ELSE FirstFourDigits(dateString, 1)

Other == <<"O","t","h","e","r">>

ACMFD == <<"A","C","&","M","F","D">>

RECURSIVE DeptRunEnd(_, _)
DeptRunEnd(s, i) ==
    IF i <= Len(s) /\ (IsUpper(s[i]) \/ s[i] = "&") THEN DeptRunEnd(s, i + 1) ELSE i - 1

\* circularId.match(/^([A-Z&]+)\s/)
extractDepartmentFromId(circularId) ==
    IF circularId = <<>> THEN Other
    ELSE LET k == DeptRunEnd(circularId, 1)
         IN  IF k >= 1 /\ k < Len(circularId) /\ IsSpace(circularId[k + 1])
             THEN LET dept == SubSeq(circularId, 1, k)
                  IN  IF includes(dept, <<"A","C">>) /\ includes(dept, <<"M","F","D">>)
                      THEN ACMFD
                      ELSE IF dept = <<"A","C","M","F","D">> THEN ACMFD ELSE dept
             ELSE Other

\* generateNodeId(id, url, title); rand is the value Math.random() yields
generateNodeId(id, url, title, rand) ==
    IF id # <<>> THEN id
    ELSE IF url # <<>> THEN <<"u","r","l","_">> \o url
    ELSE IF title # <<>> THEN <<"t","i","t","l","e","_">> \o title
    ELSE <<"n","o","d","e","_">> \o rand

(***************************************************************************)
(* graph-builder.js: extraction                                            *)
(*                                                                         *)
(* The accumulators of one buildGraph call are threaded through the        *)
(* recursive operators as a record st:                                     *)
(*   nodes  the nodes array, in push order                                 *)
(*   edges  the edges array, in push order                                 *)
(*   table  the global Map nodeIdToNormalizedId (normalized id -> id)      *)
(*   rand   the number of Math.random() calls made so far                  *)
(***************************************************************************)
MaxDepth == 10

\* the string a call of Math.random() yields; the k-th call of a page is fresh
RandomString(k) == <<"0", ".", DigitSeq[((k \div 10) % 10) + 1], DigitSeq[(k % 10) + 1]>>

MapSet(map, key, value) ==
    [k \in (DOMAIN map) \cup {key} |-> IF k = key THEN value ELSE map[k]]

EmptyMap == [k \in {} |-> <<>>]

PdfDocument == <<"P","D","F"," ","D","o","c","u","m","e","n","t">>

WebLink == <<"W","e","b"," ","L","i","n","k">>

OrElse(s, default) == IF s # <<>> THEN s ELSE default

CircularNode(nodeId, circular, department) ==
    [id |-> nodeId, label |-> nodeId,
     title |-> OrElse(circular.title, nodeId),
     date |-> circular.date,
     year |-> extractYearFromDate(circular.date),
     department |-> department,
     url |-> circular.url,
     content |-> circular.content,
     type |-> "circular", refCount |-> 0, fromCache |-> FALSE]

\* pdf and web nodes carry no date, year or content property (undefined)
LeafNode(leafId, ref, department, type, defaultTitle) ==
    [id |-> leafId, label |-> OrElse(ref.title, defaultTitle),
     title |-> OrElse(ref.title, defaultTitle),
     date |-> <<>>, year |-> NoYear,
     department |-> department,
     url |-> ref.url,
     content |-> <<>>,
     type |-> type, refCount |-> 0, fromCache |-> FALSE]

CacheNode(circularId, circularData) ==
    [id |-> circularId, label |-> circularId, title |-> circularId,
     date |-> <<>>, year |-> NoYear,
     department |-> extractDepartmentFromId(circularId),
     url |-> <<>>,
     content |-> circularData.content,
     type |-> "circular", refCount |-> 0, fromCache |-> TRUE]

Edge(sourceId, targetId, refType, refTitle, refUrl) ==
    [source |-> sourceId, target |-> targetId, refType |-> refType,
     refTitle |-> refTitle, refUrl |-> refUrl]

\* `pdf_${ref.title || Math.random()}` and `web_${ref.title || Math.random()}`
LeafId(prefix, ref, rand) ==
    IF ref.url # <<>> THEN ref.url
    ELSE prefix \o OrElse(ref.title, RandomString(rand + 1))

LeafUsesRandom(ref) == ref.url = <<>> /\ ref.title = <<>>

\* null where an object is expected (a year entry, a circular, a cache entry, a
\* reference); a null cache entry keeps its key
NullValue == [null |-> TRUE]

IsNull(value) == "null" \in DOMAIN value

\* a cap that already stops at depth 10
DepthCapReachedEarly(depth) == depth >= MaxDepth

\* `depth > 10` in the first line of extractReferences
DepthCapReached(depth) == depth > MaxDepth

\* a descent that takes the circular a reference names as the source below it
NestedSourceIsTarget(sourceId, targetId) == targetId

\* the sourceId passed on to the references nested in a circular-type reference
NestedSource(sourceId, targetId) == sourceId

RECURSIVE extractReferences(_, _, _, _, _, _)
\* the for loop of extractReferences from index i on, at recursion depth `depth`
extractReferences(references, i, sourceId, department, st, depth) ==
    IF st.threw \/ DepthCapReached(depth) \/ i > Len(references) THEN st
    ELSE LET ref == references[i]
         IN
         IF IsNull(ref)
         THEN extractReferences(references, i + 1, sourceId, department, st, depth)
         ELSE IF ref.type = "circular" THEN
            LET targetId == normalizeTitle(ref.title)
                st1 == IF targetId # <<>>
                       THEN [st EXCEPT !.edges =
                                Append(@, Edge(sourceId, targetId, "circular",
                                               ref.title, ref.url))]
                       ELSE st
                st2 == extractReferences(ref.refs, 1, NestedSource(sourceId, targetId),
                                         department, st1, depth + 1)
            IN  extractReferences(references, i + 1, sourceId, department, st2, depth)
         ELSE IF ref.type = "pdf" THEN
            LET pdfId == LeafId(<<"p","d","f","_">>, ref, st.rand)
                st1 == [st EXCEPT
                          !.nodes = Append(@, LeafNode(pdfId, ref, department,
                                                       "pdf", PdfDocument)),
                          !.edges = Append(@, Edge(sourceId, pdfId, "pdf",
                                                   OrElse(ref.title, PdfDocument),
                                                   ref.url)),
                          !.rand = IF LeafUsesRandom(ref) THEN @ + 1 ELSE @]
                st2 == extractReferences(ref.refs, 1, pdfId, department,
                                         st1, depth + 1)
            IN  extractReferences(references, i + 1, sourceId, department, st2, depth)
         ELSE IF ref.type = "web" THEN
            LET webId == LeafId(<<"w","e","b","_">>, ref, st.rand)
                st1 == [st EXCEPT
                          !.nodes = Append(@, LeafNode(webId, ref, department,
                                                       "web", WebLink)),
                          !.edges = Append(@, Edge(sourceId, webId, "web",
                                                   OrElse(ref.title, WebLink),
                                                   ref.url)),
                          !.rand = IF LeafUsesRandom(ref) THEN @ + 1 ELSE @]
            IN  extractReferences(references, i + 1, sourceId, department, st1, depth)
         ELSE extractReferences(references, i + 1, sourceId, department, st, depth)

processCircular(circular, department, st) ==
    IF IsNull(circular) THEN st ELSE
    LET usesRandom == circular.ID = <<>> /\ circular.url = <<>> /\ circular.title = <<>>
        nodeId == generateNodeId(circular.ID, circular.url, circular.title,
                                 RandomString(st.rand + 1))
        st1 == [st EXCEPT
                  !.nodes = Append(@, CircularNode(nodeId, circular, department)),
                  !.table = MapSet(@, normalizeTitle(nodeId), nodeId),
                  !.rand = IF usesRandom THEN @ + 1 ELSE @]
    IN  extractReferences(circular.references, 1, nodeId, department, st1, 0)

RECURSIVE processAll(_, _, _, _)
\* `for (const circular of circulars) processCircular(...)` from index i on
processAll(circulars, i, department, st) ==
    IF st.threw \/ i > Len(circulars) THEN st
    ELSE processAll(circulars, i + 1, department,
                    processCircular(circulars[i], department, st))

RECURSIVE extractYears(_, _, _, _)
\* the loop over Object.entries(fileData.years) from index i on
extractYears(years, i, department, st) ==
    IF st.threw \/ i > Len(years) THEN st
    ELSE IF IsNull(years[i]) THEN [st EXCEPT !.threw = TRUE]
    ELSE LET st1 == processAll(years[i].circulars, 1, department, st)
             st2 == processAll(years[i].circular_letters, 1, department, st1)
         IN  extractYears(years, i + 1, department, st2)

extractCircularsFromMainFile(fileData, st) ==
    extractYears(fileData.years, 1, OrElse(fileData.department, Other), st)

RECURSIVE extractMainFiles(_, _, _)
\* `for (const fileData of loadedData.mainFiles)` from index i on
extractMainFiles(mainFiles, i, st) ==
    IF st.threw \/ i > Len(mainFiles) THEN st
    ELSE extractMainFiles(mainFiles, i + 1,
                          extractCircularsFromMainFile(mainFiles[i], st))

RECURSIVE extractCircularsFromCache(_, _, _)
\* the loop over Object.entries(cacheData) from index i on
extractCircularsFromCache(cacheData, i, st) ==
    IF st.threw \/ i > Len(cacheData) THEN st
    ELSE IF IsNull(cacheData[i]) THEN [st EXCEPT !.threw = TRUE]
    ELSE LET circularId == cacheData[i].id
             st1 == [st EXCEPT
                       !.nodes = Append(@, CacheNode(circularId, cacheData[i])),
                       !.table = MapSet(@, normalizeTitle(circularId), circularId)]
             st2 == extractReferences(cacheData[i].references, 1, circularId,
                                      extractDepartmentFromId(circularId), st1, 0)
         IN  extractCircularsFromCache(cacheData, i + 1, st2)

(***************************************************************************)
(* graph-builder.js: deduplication, validation, reference counts           *)
(*                                                                         *)
(* A JavaScript Map keeps insertion order, so nodeMap is the sequence of   *)
(* its values in insertion order; ids are its keys.                        *)
(***************************************************************************)
MapIds(nodeMap) == {nodeMap[i].id : i \in 1..Len(nodeMap)}

MapHas(nodeMap, id) == \E i \in 1..Len(nodeMap) : nodeMap[i].id = id

MapIndex(nodeMap, id) == CHOOSE i \in 1..Len(nodeMap) : nodeMap[i].id = id

\* `existingNode.content.length` on a pdf or web node, which has no content
MergeThrows(existingNode, node) ==
    /\ ~node.fromCache \/ existingNode.fromCache
    /\ node.content # <<>>
    /\ existingNode.type # "circular"

\* the body of `if (existingNode) { ... }` in deduplicateNodes
MergeNode(existingNode, node) ==
    IF ~node.fromCache \/ existingNode.fromCache
    THEN [existingNode EXCEPT
            !.title = IF node.title # <<>> /\ @ = <<>> THEN node.title ELSE @,
            !.date = IF node.date # <<>> /\ @ = <<>> THEN node.date ELSE @,
            !.year = IF node.year # NoYear /\ @ = NoYear THEN node.year ELSE @,
            !.url = IF node.url # <<>> /\ @ = <<>> THEN node.url ELSE @,
            !.content = IF node.content # <<>> /\ @ = <<>> THEN node.content ELSE @,
            !.fromCache = IF ~@ THEN node.fromCache ELSE @]
    ELSE existingNode

RECURSIVE deduplicateFrom(_, _, _)
\* the loop of deduplicateNodes from index i on; acc = [map, threw]
deduplicateFrom(nodes, i, acc) ==
    IF i > Len(nodes) \/ acc.threw THEN acc
    ELSE LET node == nodes[i]
         IN  IF MapHas(acc.map, node.id)
             THEN LET k == MapIndex(acc.map, node.id)
                  IN  IF MergeThrows(acc.map[k], node)
                      THEN [acc EXCEPT !.threw = TRUE]
                      ELSE deduplicateFrom(nodes, i + 1,
                               [acc EXCEPT !.map[k] = MergeNode(@, node)])
             ELSE deduplicateFrom(nodes, i + 1,
                                  [acc EXCEPT !.map = Append(@, node)])

deduplicateNodes(nodes) == deduplicateFrom(nodes, 1, [map |-> <<>>, threw |-> FALSE])

\* `edge_${edge.source}_${targetId}_${validEdges.length}`
RECURSIVE NumberString(_)
NumberString(n) ==
    IF n < 10 THEN <<DigitSeq[n + 1]>>
    ELSE NumberString(n \div 10) \o <<DigitSeq[(n % 10) + 1]>>

EdgeId(source, targetId, n) ==
    <<"e","d","g","e","_">> \o source \o <<"_">> \o targetId \o <<"_">> \o NumberString(n)

\* a validateEdges that never consults the normalized-id table
ResolveTargetLiteral(edge, nodeMap, table) == edge.target

\* a resolution that knows only the documents extracted before the source
ResolveTargetAtExtraction(edge, nodeMap, table) ==
    IF /\ ~MapHas(nodeMap, edge.target)
       /\ edge.target \in DOMAIN table
       /\ MapIndex(nodeMap, table[edge.target]) <= MapIndex(nodeMap, edge.source)
    THEN table[edge.target]
    ELSE edge.target

\* the target the loop body of validateEdges settles on for one edge
ResolveTarget(edge, nodeMap, table) ==
    IF ~MapHas(nodeMap, edge.target) /\ edge.target \in DOMAIN table
    THEN table[edge.target]
    ELSE edge.target

\* a validateEdges that checks the source of an edge only
EdgeIsValidSourceOnly(edge, targetId, nodeMap) == MapHas(nodeMap, edge.source)

EdgeIsValid(edge, targetId, nodeMap) ==
    MapHas(nodeMap, edge.source) /\ MapHas(nodeMap, targetId)

RECURSIVE validateFrom(_, _, _, _, _)
\* the loop of validateEdges from index i on; acc = [validEdges, orphanedCount]
validateFrom(edges, i, nodeMap, table, acc) ==
    IF i > Len(edges) THEN acc
    ELSE LET edge == edges[i]
             targetId == ResolveTarget(edge, nodeMap, table)
         IN  IF EdgeIsValid(edge, targetId, nodeMap)
             THEN validateFrom(edges, i + 1, nodeMap, table,
                    [acc EXCEPT !.validEdges =
                        Append(@, [source |-> edge.source, target |-> targetId,
                                   refType |-> edge.refType,
                                   refTitle |-> edge.refTitle,
                                   refUrl |-> edge.refUrl,
                                   id |-> EdgeId(edge.source, targetId, Len(@))])])
             ELSE validateFrom(edges, i + 1, nodeMap, table,
                    [acc EXCEPT !.orphanedCount = @ + 1])

validateEdges(edges, nodeMap, table) ==
    validateFrom(edges, 1, nodeMap, table, [validEdges |-> <<>>, orphanedCount |-> 0])

RECURSIVE countOutgoingReferences(_, _, _)
\* a calculateReferenceCounts that counts an edge at its source
countOutgoingReferences(nodeMap, edges, i) ==
    IF i > Len(edges) THEN nodeMap
    ELSE countOutgoingReferences(
             [nodeMap EXCEPT ![MapIndex(nodeMap, edges[i].source)].refCount = @ + 1],
             edges, i + 1)

RECURSIVE calculateReferenceCounts(_, _, _)
\* the loop of calculateReferenceCounts from index i on
calculateReferenceCounts(nodeMap, edges, i) ==
    IF i > Len(edges) THEN nodeMap
    ELSE IF MapHas(nodeMap, edges[i].target)
         THEN calculateReferenceCounts(
                  [nodeMap EXCEPT ![MapIndex(nodeMap, edges[i].target)].refCount = @ + 1],
                  edges, i + 1)
         ELSE calculateReferenceCounts(nodeMap, edges, i + 1)

(***************************************************************************)
(* Cycle detector                                                          *)
(*                                                                         *)
(* graphData is { nodes, edges } as buildGraph returns it.  The closure    *)
(* variables of detectCycles are threaded through dfs as a record cs:      *)
(* visited, recursionStack, cycles, nodesInCycles, edgesInCycles.          *)
(***************************************************************************)
RECURSIVE adjacencyFrom(_, _, _)
\* the neighbours pushed for sourceId by the edge loop from index k on
adjacencyFrom(graphEdges, k, sourceId) ==
    IF k > Len(graphEdges) THEN <<>>
    ELSE (IF graphEdges[k].refType = "circular" /\ graphEdges[k].source = sourceId
          THEN <<[target |-> graphEdges[k].target, edgeId |-> graphEdges[k].id]>>
          ELSE <<>>) \o adjacencyFrom(graphEdges, k + 1, sourceId)

RECURSIVE adjacencyOfAllTypes(_, _, _)
\* an adjacency list that forgets the refType test
adjacencyOfAllTypes(graphEdges, k, sourceId) ==
    IF k > Len(graphEdges) THEN <<>>
    ELSE (IF graphEdges[k].source = sourceId
          THEN <<[target |-> graphEdges[k].target, edgeId |-> graphEdges[k].id]>>
          ELSE <<>>) \o adjacencyOfAllTypes(graphEdges, k + 1, sourceId)

buildAdjacencyListAllTypes(graphData) ==
    [id \in MapIds(graphData.nodes) |-> adjacencyOfAllTypes(graphData.edges, 1, id)]

buildAdjacencyList(graphData) ==
    [id \in MapIds(graphData.nodes) |-> adjacencyFrom(graphData.edges, 1, id)]

\* path.indexOf(targetId), 1-based; 0 when absent
IndexOf(path, targetId) ==
    IF \E i \in 1..Len(path) : path[i] = targetId
    THEN CHOOSE i \in 1..Len(path) :
             path[i] = targetId /\ \A j \in 1..(i - 1) : path[j] # targetId
    ELSE 0

RECURSIVE dfs(_, _, _, _, _)
RECURSIVE dfsNeighbors(_, _, _, _, _, _, _)

\* the `for (const neighbor of neighbors)` loop of dfs from index k on;
\* path already holds nodeId
dfsNeighbors(adjList, neighbors, k, nodeId, path, edgePath, cs) ==
    IF k > Len(neighbors)
    THEN [cs EXCEPT !.recursionStack = @ \ {nodeId}]
    ELSE LET targetId == neighbors[k].target
             edgeId == neighbors[k].edgeId
             seen == [cs EXCEPT !.examined = Append(@, edgeId)]
         IN  IF targetId \in cs.recursionStack
             THEN LET cycleStartIndex == IndexOf(path, targetId)
                  IN  IF cycleStartIndex # 0
                      THEN LET cycle == SubSeq(path, cycleStartIndex, Len(path))
                               cycleEdges == Append(SubSeq(edgePath, cycleStartIndex,
                                                           Len(edgePath)), edgeId)
                               cs1 == [seen EXCEPT
                                   !.cycles = Append(@, [nodes |-> cycle,
                                                         edges |-> cycleEdges,
                                                         length |-> Len(cycle)]),
                                   !.nodesInCycles =
                                       @ \cup {cycle[i] : i \in 1..Len(cycle)},
                                   !.edgesInCycles =
                                       @ \cup {cycleEdges[i] : i \in 1..Len(cycleEdges)}]
                           IN  dfsNeighbors(adjList, neighbors, k + 1, nodeId,
                                            path, edgePath, cs1)
                      ELSE dfsNeighbors(adjList, neighbors, k + 1, nodeId,
                                        path, edgePath, seen)
             ELSE IF targetId \notin cs.visited
                  THEN dfsNeighbors(adjList, neighbors, k + 1, nodeId, path, edgePath,
                                    dfs(adjList, targetId, path,
                                        Append(edgePath, edgeId), seen))
                  ELSE dfsNeighbors(adjList, neighbors, k + 1, nodeId,
                                    path, edgePath, seen)

dfs(adjList, nodeId, path, edgePath, cs) ==
    LET cs1 == [cs EXCEPT !.visited = @ \cup {nodeId},
                          !.recursionStack = @ \cup {nodeId},
                          !.entered = Append(@, nodeId)]
        neighbors == IF nodeId \in DOMAIN adjList THEN adjList[nodeId] ELSE <<>>
    IN  dfsNeighbors(adjList, neighbors, 1, nodeId, Append(path, nodeId), edgePath, cs1)

\* a root loop that takes every node for unvisited
Anywhere(cs, nodeId) == TRUE

\* `!visited.has(nodeId)` of the root loop
Unvisited(cs, nodeId) == nodeId \notin cs.visited

\* a detection that runs the DFS from the first node only
dfsFromFirstNode(adjList, graphNodes, i, cs) ==
    IF graphNodes = <<>> THEN cs
    ELSE dfs(adjList, graphNodes[1].id, <<>>, <<>>, cs)

RECURSIVE dfsFromAll(_, _, _, _)
\* `for (const node of graphData.nodes) if (!visited.has(id)) dfs(id, [], [])`
dfsFromAll(adjList, graphNodes, i, cs) ==
    IF i > Len(graphNodes) THEN cs
    ELSE IF Unvisited(cs, graphNodes[i].id)
         THEN dfsFromAll(adjList, graphNodes, i + 1,
                         dfs(adjList, graphNodes[i].id, <<>>, <<>>, cs))
         ELSE dfsFromAll(adjList, graphNodes, i + 1, cs)

NoCycleInfo == [cycles |-> <<>>, nodesInCycles |-> {}, edgesInCycles |-> {}]

\* the run of detectCycles; `entered` lists the calls of dfs and `examined`
\* the adjacency entries its loop looked at, in order
detectCyclesRun(graphData) ==
    dfsFromAll(buildAdjacencyList(graphData), graphData.nodes, 1,
               [visited |-> {}, recursionStack |-> {}, cycles |-> <<>>,
                nodesInCycles |-> {}, edgesInCycles |-> {},
                entered |-> <<>>, examined |-> <<>>])

\* `return { cycles, nodesInCycles, edgesInCycles }`
detectCyclesResult(cs) ==
    [cycles |-> cs.cycles, nodesInCycles |-> cs.nodesInCycles,
     edgesInCycles |-> cs.edgesInCycles]

detectCycles(graphData) == detectCyclesResult(detectCyclesRun(graphData))

SeqIncludes(seq, v) == \E i \in 1..Len(seq) : seq[i] = v

\* an annotation that keeps, for a node or an edge, the last ordinal only
applyCycleInfoOverwriting(graphData, info) ==
    LET Last(ids) == IF ids = {} THEN {} ELSE {CHOOSE c \in ids : \A d \in ids : d <= c}
    IN  [nodes |-> [i \in 1..Len(graphData.nodes) |->
                      IF graphData.nodes[i].id \in info.nodesInCycles
                      THEN [graphData.nodes[i] EXCEPT
                              !.inCycle = TRUE,
                              !.cycleIds = Last({c - 1 : c \in {d \in 1..Len(info.cycles) :
                                  SeqIncludes(info.cycles[d].nodes, graphData.nodes[i].id)}})]
                      ELSE graphData.nodes[i]],
         edges |-> [k \in 1..Len(graphData.edges) |->
                      IF graphData.edges[k].id \in info.edgesInCycles
                      THEN [graphData.edges[k] EXCEPT
                              !.isCycleEdge = TRUE,
                              !.cycleIds = Last({c - 1 : c \in {d \in 1..Len(info.cycles) :
                                  SeqIncludes(info.cycles[d].edges, graphData.edges[k].id)}})]
                      ELSE graphData.edges[k]]]

\* cycle ordinals are the 0-based indices of cycleInfo.cycles
applyCycleInfo(graphData, info) ==
    [nodes |-> [i \in 1..Len(graphData.nodes) |->
                  IF graphData.nodes[i].id \in info.nodesInCycles
                  THEN [graphData.nodes[i] EXCEPT
                          !.inCycle = TRUE,
                          !.cycleIds = {c - 1 : c \in {d \in 1..Len(info.cycles) :
                              SeqIncludes(info.cycles[d].nodes, graphData.nodes[i].id)}}]
                  ELSE graphData.nodes[i]],
     edges |-> [k \in 1..Len(graphData.edges) |->
                  IF graphData.edges[k].id \in info.edgesInCycles
                  THEN [graphData.edges[k] EXCEPT
                          !.isCycleEdge = TRUE,
                          !.cycleIds = {c - 1 : c \in {d \in 1..Len(info.cycles) :
                              SeqIncludes(info.cycles[d].edges, graphData.edges[k].id)}}]
                  ELSE graphData.edges[k]]]

\* the cycles of cycleInfo.cycles that include nodeId, each with its ordinal
getCyclesForNode(nodeId, info) ==
    LET ordinals == SelectSeq([d \in 1..Len(info.cycles) |-> d],
                              LAMBDA d : SeqIncludes(info.cycles[d].nodes, nodeId))
    IN  [k \in 1..Len(ordinals) |->
            [id |-> ordinals[k] - 1,
             nodes |-> info.cycles[ordinals[k]].nodes,
             length |-> info.cycles[ordinals[k]].length]]

(***************************************************************************)
(* Filter engine (filters.js)                                              *)
(*                                                                         *)
(* cy is the Cytoscape instance built from the annotated graph; its        *)
(* elements carry the classes 'hidden' and 'dimmed'.  A JavaScript Set     *)
(* keeps insertion order, so activeFilters.departments is a sequence       *)
(* without repetitions.  The text JSON.stringify writes is the sequence of *)
(* its <<key, value>> pairs; JSON.parse reads a property by its key.       *)
(***************************************************************************)
DefaultYearMin == 2000

DefaultYearMax == 2025

YearSentinelMin == 3000

YearSentinelMax == 1000

\* let activeFilters = { ... } at the top of filters.js
InitialFilters ==
    [departments |-> <<>>, yearMin |-> DefaultYearMin, yearMax |-> DefaultYearMax,
     searchQuery |-> <<>>, showCyclesOnly |-> FALSE, showLabels |-> FALSE,
     showIsolated |-> TRUE]

SetHas(set, v) == \E i \in 1..Len(set) : set[i] = v

SetAdd(set, v) == IF SetHas(set, v) THEN set ELSE Append(set, v)

SetDelete(set, v) == SelectSeq(set, LAMBDA e : e # v)

RECURSIVE SetFromArray(_)
\* new Set(array)
SetFromArray(array) ==
    IF array = <<>> THEN <<>>
    ELSE SetAdd(SetFromArray(SubSeq(array, 1, Len(array) - 1)), array[Len(array)])

Members(set) == {set[i] : i \in 1..Len(set)}

\* the order of UTF-16 code units among the characters that occur
CodeOrder == <<" ", "&", ".">> \o DigitSeq \o UpperSeq \o <<"_">> \o LowerSeq

CharCode(c) == CHOOSE i \in 1..Len(CodeOrder) : CodeOrder[i] = c

RECURSIVE StringLess(_, _)
\* a < b for strings, as Array.prototype.sort compares them
StringLess(a, b) ==
    IF b = <<>> THEN FALSE
    ELSE IF a = <<>> THEN TRUE
    ELSE IF Head(a) # Head(b) THEN CharCode(Head(a)) < CharCode(Head(b))
    ELSE StringLess(Tail(a), Tail(b))

RECURSIVE SortStrings(_)
\* Array.from(set).sort()
SortStrings(set) ==
    IF set = {} THEN <<>>
    ELSE LET least == CHOOSE a \in set : \A b \in set \ {a} : StringLess(a, b)
         IN  <<least>> \o SortStrings(set \ {least})

\* the departments initializeDepartmentFilters makes checkboxes for
SortedDepartments(cyGraphArg) ==
    SortStrings({cyGraphArg.nodes[i].department : i \in 1..Len(cyGraphArg.nodes)} \ {<<>>})

\* node.degree(): the number of edge ends at the node
Degree(cyGraphArg, id) ==
    Cardinality({k \in 1..Len(cyGraphArg.edges) : cyGraphArg.edges[k].source = id})
    + Cardinality({k \in 1..Len(cyGraphArg.edges) : cyGraphArg.edges[k].target = id})

NoClasses ==
    [hiddenNodes |-> {}, dimmedNodes |-> {}, hiddenEdges |-> {}, dimmedEdges |-> {},
     highlightedNodes |-> {}]

\* a reset of the classes that takes 'hidden' off and leaves 'dimmed'
RemoveHiddenOnly(prior) ==
    [prior EXCEPT !.hiddenNodes = {}, !.hiddenEdges = {}]

\* cy.elements().removeClass('hidden dimmed')
RemoveHiddenDimmed(prior) ==
    [prior EXCEPT !.hiddenNodes = {}, !.dimmedNodes = {}, !.hiddenEdges = {},
                  !.dimmedEdges = {}]

\* nodes whose department is not allowed
DepartmentPass(cyGraphArg, filters) ==
    {i \in 1..Len(cyGraphArg.nodes) :
        ~SetHas(filters.departments, cyGraphArg.nodes[i].department)}

\* a year pass that also hides the nodes without a year
YearPassHidingUnknown(cyGraphArg, filters) ==
    {i \in 1..Len(cyGraphArg.nodes) :
        \/ cyGraphArg.nodes[i].year < filters.yearMin
        \/ cyGraphArg.nodes[i].year > filters.yearMax}

\* nodes with a year outside [yearMin, yearMax]
YearPass(cyGraphArg, filters) ==
    {i \in 1..Len(cyGraphArg.nodes) :
        /\ cyGraphArg.nodes[i].year # NoYear
        /\ \/ cyGraphArg.nodes[i].year < filters.yearMin
           \/ cyGraphArg.nodes[i].year > filters.yearMax}

\* matchingNodes of the search pass
MatchingNodes(cyGraphArg, filters) ==
    {i \in 1..Len(cyGraphArg.nodes) :
        \/ includes(toLowerCase(cyGraphArg.nodes[i].id), filters.searchQuery)
        \/ includes(toLowerCase(cyGraphArg.nodes[i].title), filters.searchQuery)}

\* the nodes the search pass dims, given the nodes hidden so far
SearchPass(cyGraphArg, filters, hidden) ==
    IF filters.searchQuery # <<>>
    THEN {i \in 1..Len(cyGraphArg.nodes) :
             i \notin MatchingNodes(cyGraphArg, filters) /\ i \notin hidden}
    ELSE {}

CyclesOnlyPass(cyGraphArg, filters, hidden) ==
    IF filters.showCyclesOnly
    THEN {i \in 1..Len(cyGraphArg.nodes) : ~cyGraphArg.nodes[i].inCycle /\ i \notin hidden}
    ELSE {}

IsolatedPass(cyGraphArg, filters, hidden) ==
    IF ~filters.showIsolated
    THEN {i \in 1..Len(cyGraphArg.nodes) :
             Degree(cyGraphArg, cyGraphArg.nodes[i].id) = 0 /\ i \notin hidden}
    ELSE {}

NodeIndex(cyGraphArg, id) ==
    CHOOSE i \in 1..Len(cyGraphArg.nodes) : cyGraphArg.nodes[i].id = id

\* an edge pass that looks at the source only
EdgePassSourceOnly(cyGraphArg, hidden) ==
    {k \in 1..Len(cyGraphArg.edges) :
        NodeIndex(cyGraphArg, cyGraphArg.edges[k].source) \in hidden}

\* edges with a hidden source or target
EdgePass(cyGraphArg, hidden) ==
    {k \in 1..Len(cyGraphArg.edges) :
        \/ NodeIndex(cyGraphArg, cyGraphArg.edges[k].source) \in hidden
        \/ NodeIndex(cyGraphArg, cyGraphArg.edges[k].target) \in hidden}

\* applyFilters(): the classes of cy after the passes; `prior` are the classes
\* the elements carry when it is called
applyFilters(prior, cyGraphArg, filters) ==
    LET reset   == RemoveHiddenDimmed(prior)
        hidden1 == reset.hiddenNodes \cup DepartmentPass(cyGraphArg, filters)
        hidden2 == hidden1 \cup YearPass(cyGraphArg, filters)
        dimmed  == reset.dimmedNodes \cup SearchPass(cyGraphArg, filters, hidden2)
        hidden3 == hidden2 \cup CyclesOnlyPass(cyGraphArg, filters, hidden2)
        hidden4 == hidden3 \cup IsolatedPass(cyGraphArg, filters, hidden3)
    IN  [reset EXCEPT !.hiddenNodes = hidden4, !.dimmedNodes = dimmed,
                      !.hiddenEdges = @ \cup EdgePass(cyGraphArg, hidden4)]

\* JSON.stringify(state) in saveFilterState
saveFilterState(filters) ==
    << <<"departments", filters.departments>>,
       <<"yearMin", filters.yearMin>>,
       <<"yearMax", filters.yearMax>>,
       <<"showCyclesOnly", filters.showCyclesOnly>>,
       <<"showLabels", filters.showLabels>>,
       <<"showIsolated", filters.showIsolated>> >>

\* localStorage.getItem of a key that is not stored
NoItem == <<>>

\* JSON.parse(saved) throws: the text is not a sequence of key-value pairs
JSONParseThrows(text) == \E i \in 1..Len(text) : Len(text[i]) # 2

\* loadFilterState goes past `if (!saved) return` and JSON.parse
Restores(saved) == saved # NoItem /\ ~JSONParseThrows(saved)

\* state.key !== undefined, for the object JSON.parse returns
HasProperty(text, key) == \E i \in 1..Len(text) : text[i][1] = key

\* state.key
Property(text, key) == text[CHOOSE i \in 1..Len(text) : text[i][1] = key][2]

\* the filter state after the restoring part of loadFilterState
RestoredFilters(filters, saved) ==
    LET f1 == IF HasProperty(saved, "departments")
              THEN [filters EXCEPT
                      !.departments = SetFromArray(Property(saved, "departments"))]
              ELSE filters
        f2 == IF HasProperty(saved, "yearMin") /\ HasProperty(saved, "yearMax")
              THEN [f1 EXCEPT !.yearMin = Property(saved, "yearMin"),
                              !.yearMax = Property(saved, "yearMax")]
              ELSE f1
        f3 == IF HasProperty(saved, "showCyclesOnly")
              THEN [f2 EXCEPT !.showCyclesOnly = Property(saved, "showCyclesOnly")]
              ELSE f2
        f4 == IF HasProperty(saved, "showLabels")
              THEN [f3 EXCEPT !.showLabels = Property(saved, "showLabels")]
              ELSE f3
    IN  IF HasProperty(saved, "showIsolated")
        THEN [f4 EXCEPT !.showIsolated = Property(saved, "showIsolated")]
        ELSE f4

KnownYears(cyGraphArg) ==
    {cyGraphArg.nodes[i].year : i \in 1..Len(cyGraphArg.nodes)} \ {NoYear}

Min(a, b) == IF a < b THEN a ELSE b

Max(a, b) == IF a > b THEN a ELSE b

\* minYear of initializeYearFilters
DataMinYear(cyGraphArg) ==
    LET years == KnownYears(cyGraphArg) \cup {YearSentinelMin}
        least == CHOOSE y \in years : \A z \in years : y <= z
    IN  IF least = YearSentinelMin THEN DefaultYearMin ELSE least

\* maxYear of initializeYearFilters
DataMaxYear(cyGraphArg) ==
    LET years == KnownYears(cyGraphArg) \cup {YearSentinelMax}
        greatest == CHOOSE y \in years : \A z \in years : y >= z
    IN  IF greatest = YearSentinelMax THEN DefaultYearMax ELSE greatest

(***************************************************************************)
(* Inputs of the graph builder                                             *)
(*                                                                         *)
(* A primary document is { department, years: { year: { circulars,         *)
(* circular_letters } } }; Object.entries lists the years in a fixed       *)
(* order, so `years` is a sequence.  The cache document is listed by       *)
(* Object.entries in insertion order, so it is a sequence of entries       *)
(* [id, content, references] (content.content and content.references).    *)
(* A reference is [type, title, url, refs], refs being content.references. *)
(***************************************************************************)
Ref(type, title, url, refs) == [type |-> type, title |-> title, url |-> url, refs |-> refs]

sIdA == <<"A"," ","N","o",".","0","1">>

sIdA2 == <<"A"," ","N","o","."," ","1">>

sIdB == <<"B"," ","2">>

sIdC == <<"c">>

sIdD == <<"D"," ","3">>

sRefA == <<"a"," ","N","O","."," ","1">>

sRefB == <<"B"," "," ","0","2">>

sRefC == <<"C"," ">>

sRefD == <<"d"," ","0","3">>

sRefX == <<"X"," ","9">>

sUrl == <<"u">>

DocA ==
    [ID |-> sIdA, title |-> <<"T","a">>, date |-> <<"2","0","2","0">>,
     url |-> <<"h","a">>, content |-> <<"pa">>,
     references |-> <<Ref("circular", sRefB, <<>>, <<>>),
                      Ref("circular", sRefB, <<>>, <<>>)>>]

\* the same circular as DocA, with every optional field missing
DocA0 ==
    [ID |-> sIdA, title |-> <<>>, date |-> <<>>, url |-> <<>>, content |-> <<>>,
     references |-> <<>>]

\* a distinct id with the same normalized title as DocA
DocA2 ==
    [ID |-> sIdA2, title |-> <<"T","b">>, date |-> <<>>, url |-> <<>>,
     content |-> <<"pc">>,
     references |-> <<Ref("circular", sRefA, <<>>, <<>>)>>]

DocB ==
    [ID |-> sIdB, title |-> <<"a","B">>, date |-> <<"1"," ","M","a","y"," ","2","0","2","1">>,
     url |-> <<>>, content |-> <<"pb">>,
     references |-> <<Ref("circular", sRefA, <<>>, <<>>),
                      Ref("pdf", <<>>, sUrl, <<Ref("circular", sRefX, <<>>, <<>>)>>),
                      Ref("circular", sRefX, <<>>, <<>>)>>]

DocC ==
    [ID |-> sIdC, title |-> <<>>, date |-> <<"2","0","2","0">>, url |-> <<>>,
     content |-> <<>>,
     references |-> <<Ref("circular", sRefC, <<>>, <<>>),
                      Ref("web", <<>>, <<>>, <<>>),
                      Ref("circular", sRefA, <<>>,
                          <<Ref("circular", sRefB, <<>>, <<>>)>>)>>]

\* a circular without ID, url or title, and a pdf without url or title
DocN ==
    [ID |-> <<>>, title |-> <<>>, date |-> <<>>, url |-> <<>>, content |-> <<"pn">>,
     references |-> <<Ref("pdf", <<>>, <<>>, <<>>),
                      Ref("pdf", <<"P">>, <<>>, <<>>)>>]

DocPool == {DocA, DocA0, DocA2, DocB, DocC, DocN}

KA == [id |-> sIdA, content |-> <<"ka">>,
       references |-> <<Ref("circular", sRefB, <<>>, <<>>)>>]

KB == [id |-> sIdB, content |-> <<"kb">>,
       references |-> <<Ref("pdf", <<"P">>, <<>>, <<>>)>>]

KD == [id |-> sIdD, content |-> <<>>,
       references |-> <<Ref("circular", sRefA, <<>>, <<>>),
                        Ref("circular", sRefD, <<>>, <<>>)>>]

\* a cache entry whose key is also the url of a pdf it refers to
KU == [id |-> sUrl, content |-> <<>>,
       references |-> <<Ref("pdf", <<>>, sUrl, <<>>)>>]

CacheEntries == <<KA, KB, KD>>

\* the department tag of each primary file; the second file carries none
FileDepartments == << <<"B","S","D">>, <<>> >>

\* where a circular may sit: [file, letter]
Placements ==
    {[file |-> 1, letter |-> FALSE], [file |-> 1, letter |-> TRUE],
     [file |-> 2, letter |-> FALSE]}

MaxDocs == 2

RECURSIVE SelectSeq2(_, _, _)
\* the docs of `placed` that sit in file f as circulars (letter = FALSE) or letters
SelectSeq2(placed, f, letter) ==
    IF placed = <<>> THEN <<>>
    ELSE LET rest == SelectSeq2(Tail(placed), f, letter)
         IN  IF Head(placed).at.file = f /\ Head(placed).at.letter = letter
             THEN <<Head(placed).doc>> \o rest
             ELSE rest

MainFile(placed, f) ==
    [department |-> FileDepartments[f],
     years |-> << [circulars |-> SelectSeq2(placed, f, FALSE),
                   circular_letters |-> SelectSeq2(placed, f, TRUE)] >>]

RECURSIVE SubCache(_, _)
\* the cache that holds the entries of CacheEntries whose index is in `keep`
SubCache(keep, i) ==
    IF i > Len(CacheEntries) THEN <<>>
    ELSE (IF i \in keep THEN <<CacheEntries[i]>> ELSE <<>>) \o SubCache(keep, i + 1)

PlacedDocs ==
    UNION {[1..n -> [doc : DocPool, at : Placements]] : n \in 0..MaxDocs}

LoadedInputs ==
    {[mainFiles |-> <<MainFile(placed, 1), MainFile(placed, 2)>>,
      cache |-> SubCache(keep, 1)] :
        placed \in PlacedDocs, keep \in SUBSET (1..Len(CacheEntries))}

(***************************************************************************)
(* State                                                                   *)
(***************************************************************************)
VARIABLES
    loadedData,             \* the argument of buildGraph
    bpc,                    \* the position of buildGraph
    nodes,                  \* const nodes = []
    edges,                  \* const edges = []
    nodeIdToNormalizedId,   \* the global Map of graph-builder.js
    rand,                   \* number of Math.random() calls so far
    nodeMap,                \* the result of deduplicateNodes
    validEdges,             \* the result of validateEdges
    orphanedCount,          \* the orphanedCount validateEdges reports
    graph,                  \* the value buildGraph returns
    run,                    \* 1 in the first call of buildGraph, 2 in the second
    firstGraph,             \* the value the first call returned
    graphData,              \* the argument of detectCycles and applyCycleInfo
    cpc,                    \* the position of the cycle analysis
    cycleInfo,              \* the value detectCycles returns
    nodeCycles,             \* what getCyclesForNode returned, node by node
    dfsLog,                 \* the dfs calls and the adjacency entries examined
    uiPhase,                \* "loading" until initializeControls has run
    cyGraph,                \* the elements of the Cytoscape instance
    classes,                \* the elements that carry 'hidden' and 'dimmed'
    activeFilters,          \* let activeFilters of filters.js
    filterStateItem,        \* localStorage item 'filterState'
    dom,                    \* the filter controls of the page
    searchTimeout,          \* TRUE while the debounce timer is pending
    timerLeft,              \* milliseconds until the pending timer is due
    sinceInput,             \* milliseconds since the last 'input' event of the box
    burst,                  \* 'input' events since a timer was last started afresh (2: two or more)
    appliedFilters,         \* the filters of the latest applyFilters() call
    lastOp,                 \* the listener that ran last
    lpc,                    \* the position of loadDataFiles
    fetched,                \* how the fetch of each source ended, once settled
    mainFilesData,          \* the values of the settled loadJSONFile promises
    cacheData,              \* const cacheData
    loaded,                 \* the value loadDataFiles returns
    outOfOrder              \* a fetch settled after the fetch of a later source

buildVars == <<loadedData, bpc, nodes, edges, nodeIdToNormalizedId, rand,
               nodeMap, validEdges, orphanedCount, graph, run, firstGraph>>

cycleVars == <<graphData, cpc, cycleInfo, nodeCycles, dfsLog>>

filterVars == <<uiPhase, cyGraph, classes, activeFilters, filterStateItem, dom,
                searchTimeout, timerLeft, sinceInput, burst, appliedFilters, lastOp>>

loadVars == <<lpc, fetched, mainFilesData, cacheData, loaded, outOfOrder>>

vars == <<buildVars, cycleVars, filterVars, loadVars>>

NoGraph == [nodes |-> <<>>, edges |-> <<>>]

BuildIdle ==
    /\ bpc = "idle"
    /\ nodes = <<>>
    /\ edges = <<>>
    /\ nodeIdToNormalizedId = EmptyMap
    /\ rand = 0
    /\ nodeMap = <<>>
    /\ validEdges = <<>>
    /\ orphanedCount = 0
    /\ graph = NoGraph
    /\ run = 1
    /\ firstGraph = NoGraph

BuildUnused ==
    /\ loadedData = [mainFiles |-> <<>>, cache |-> <<>>]
    /\ BuildIdle

CycleIdle ==
    /\ cpc = "idle"
    /\ cycleInfo = NoCycleInfo
    /\ nodeCycles = <<>>
    /\ dfsLog = [entered |-> <<>>, examined |-> <<>>]

CycleUnused ==
    /\ graphData = NoGraph
    /\ CycleIdle

\* the controls of a freshly loaded page
FreshDom ==
    [departments |-> {}, min |-> DefaultYearMin, max |-> DefaultYearMax,
     yearMin |-> DefaultYearMin, yearMax |-> DefaultYearMax, searchInput |-> <<>>,
     showCyclesOnly |-> FALSE, showLabels |-> FALSE, showIsolated |-> TRUE]

NotApplied == <<>>

FilterIdle ==
    /\ uiPhase = "loading"
    /\ classes = NoClasses
    /\ activeFilters = InitialFilters
    /\ dom = FreshDom
    /\ searchTimeout = FALSE
    /\ timerLeft = 0
    /\ sinceInput = 0
    /\ burst = 0
    /\ appliedFilters = NotApplied
    /\ lastOp = "none"

FilterUnused ==
    /\ cyGraph = NoGraph
    /\ filterStateItem = NoItem
    /\ FilterIdle

\* const DATA_FILES: the primary files, and the cache file
MainDataFiles == <<"acd", "bpd", "bprd", "bsd", "bsrvd">>

CacheDataFile == "cache"

\* null
Null == <<>>

\* loadDataFiles has not returned
NotLoaded == [mainFiles |-> <<>>, cache |-> Null,
              stats |-> [loadedCount |-> 0, totalCount |-> 0, hasCache |-> FALSE]]

LoadIdle ==
    /\ lpc = "main"
    /\ fetched = [file \in {} |-> "ok"]
    /\ mainFilesData = [i \in 1..Len(MainDataFiles) |-> Null]
    /\ cacheData = Null
    /\ loaded = NotLoaded
    /\ outOfOrder = FALSE

LoadUnused == LoadIdle

(***************************************************************************)
(* buildGraph, step by step                                                *)
(***************************************************************************)
\* nodeIdToNormalizedId.clear() and the loop over loadedData.mainFiles
ExtractMain ==
    /\ bpc = "idle"
    /\ LET st == extractMainFiles(loadedData.mainFiles, 1,
                    [nodes |-> <<>>, edges |-> <<>>, table |-> EmptyMap, rand |-> rand,
                     threw |-> FALSE])
       IN  /\ nodes' = st.nodes
           /\ edges' = st.edges
           /\ nodeIdToNormalizedId' = st.table
           /\ rand' = st.rand
           /\ bpc' = IF st.threw THEN "threw" ELSE "main"
    /\ UNCHANGED <<cycleVars, filterVars, loadVars, run, firstGraph>>
    /\ UNCHANGED <<loadedData, nodeMap, validEdges, orphanedCount, graph>>

\* if (loadedData.cache) extractCircularsFromCache(...)
ExtractCache ==
    /\ bpc = "main"
    /\ LET st == extractCircularsFromCache(loadedData.cache, 1,
                    [nodes |-> nodes, edges |-> edges,
                     table |-> nodeIdToNormalizedId, rand |-> rand,
                     threw |-> FALSE])
       IN  /\ nodes' = st.nodes
           /\ edges' = st.edges
           /\ nodeIdToNormalizedId' = st.table
           /\ rand' = st.rand
           /\ bpc' = IF st.threw THEN "threw" ELSE "extracted"
    /\ UNCHANGED <<cycleVars, filterVars, loadVars, run, firstGraph>>
    /\ UNCHANGED <<loadedData, nodeMap, validEdges, orphanedCount, graph>>

\* const nodeMap = deduplicateNodes(nodes); a TypeError leaves buildGraph
Deduplicate ==
    /\ bpc = "extracted"
    /\ LET r == deduplicateNodes(nodes)
       IN  /\ nodeMap' = r.map
           /\ bpc' = IF r.threw THEN "threw" ELSE "deduplicated"
    /\ UNCHANGED <<cycleVars, filterVars, loadVars, run, firstGraph>>
    /\ UNCHANGED <<loadedData, nodes, edges, nodeIdToNormalizedId, rand,
                   validEdges, orphanedCount, graph>>

\* const validEdges = validateEdges(edges, nodeMap)
ValidateEdges ==
    /\ bpc = "deduplicated"
    /\ LET r == validateEdges(edges, nodeMap, nodeIdToNormalizedId)
       IN  /\ validEdges' = r.validEdges
           /\ orphanedCount' = r.orphanedCount
    /\ bpc' = "validated"
    /\ UNCHANGED <<cycleVars, filterVars, loadVars, run, firstGraph>>
    /\ UNCHANGED <<loadedData, nodes, edges, nodeIdToNormalizedId, rand,
                   nodeMap, graph>>

CyNode(node) ==
    [id |-> node.id, label |-> node.label, title |-> node.title, date |-> node.date,
     year |-> node.year, department |-> node.department, url |-> node.url,
     content |-> node.content, type |-> node.type, refCount |-> node.refCount,
     fromCache |-> node.fromCache, inCycle |-> FALSE, cycleIds |-> {}]

CyEdge(edge) ==
    [id |-> edge.id, source |-> edge.source, target |-> edge.target,
     refType |-> edge.refType, refTitle |-> edge.refTitle, refUrl |-> edge.refUrl,
     isCycleEdge |-> FALSE, cycleIds |-> {}]

\* calculateReferenceCounts(nodeMap, validEdges) and the returned object
FinishBuild ==
    /\ bpc = "validated"
    /\ LET counted == calculateReferenceCounts(nodeMap, validEdges, 1)
       IN  /\ nodeMap' = counted
           /\ graph' = [nodes |-> [i \in 1..Len(counted) |-> CyNode(counted[i])],
                        edges |-> [i \in 1..Len(validEdges) |-> CyEdge(validEdges[i])]]
    /\ bpc' = "built"
    /\ UNCHANGED <<cycleVars, filterVars, loadVars, run, firstGraph>>
    /\ UNCHANGED <<loadedData, nodes, edges, nodeIdToNormalizedId, rand,
                   validEdges, orphanedCount>>

\* buildGraph(loadedData), called on a freshly loaded page
buildGraph(loadedDataArg) ==
    LET st1 == extractMainFiles(loadedDataArg.mainFiles, 1,
                   [nodes |-> <<>>, edges |-> <<>>, table |-> EmptyMap, rand |-> 0,
                    threw |-> FALSE])
        st2 == extractCircularsFromCache(loadedDataArg.cache, 1, st1)
        r == deduplicateNodes(st2.nodes)
        v == validateEdges(st2.edges, r.map, st2.table)
        counted == calculateReferenceCounts(r.map, v.validEdges, 1)
    IN  IF st2.threw \/ r.threw THEN NoGraph
        ELSE [nodes |-> [i \in 1..Len(counted) |-> CyNode(counted[i])],
              edges |-> [i \in 1..Len(v.validEdges) |-> CyEdge(v.validEdges[i])]]

BuildInit ==
    /\ loadedData \in LoadedInputs
    /\ BuildIdle
    /\ CycleUnused
    /\ FilterUnused
    /\ LoadUnused

BuildNext ==
    \/ ExtractMain
    \/ ExtractCache
    \/ Deduplicate
    \/ ValidateEdges
    \/ FinishBuild

SpecBuild == BuildInit /\ [][BuildNext]_vars

(***************************************************************************)
(* buildGraph on documents with deeply nested references                   *)
(***************************************************************************)
MaxNesting == 12

\* the title of the reference that sits in the references array of `level`;
\* level 1 is the document's own references array
LevelTitle(level) == <<"L">> \o NumberString(level)

NestingPatterns == {"circular", "pdf", "mixed"}

TypeAt(pattern, level) ==
    IF pattern = "mixed" THEN (IF level % 2 = 1 THEN "circular" ELSE "pdf")
    ELSE pattern

RECURSIVE NestedReferences(_, _, _, _)
\* a references array of `level` whose first reference nests the next level,
\* down to level n; withWeb adds a web reference to every array
NestedReferences(level, n, pattern, withWeb) ==
    IF level > n THEN <<>>
    ELSE <<Ref(TypeAt(pattern, level), LevelTitle(level), <<>>,
               NestedReferences(level + 1, n, pattern, withWeb))>>
         \o (IF withWeb THEN <<Ref("web", LevelTitle(level), <<>>, <<>>)>> ELSE <<>>)

NestedInputs ==
    {IF inCache
     THEN [mainFiles |-> <<>>,
           cache |-> <<[id |-> sIdB, content |-> <<"kb">>,
                        references |-> NestedReferences(1, n, pattern, withWeb)]>>]
     ELSE [mainFiles |-> <<[department |-> <<>>,
                            years |-> <<[circulars |->
                                <<[ID |-> sIdB, title |-> <<>>, date |-> <<>>,
                                   url |-> <<>>, content |-> <<>>,
                                   references |->
                                      NestedReferences(1, n, pattern, withWeb)]>>,
                                         circular_letters |-> <<>>]>>]>>,
           cache |-> <<>>] :
        n \in 0..MaxNesting, pattern \in NestingPatterns,
        withWeb \in BOOLEAN, inCache \in BOOLEAN}

NestedInit ==
    /\ loadedData \in NestedInputs
    /\ BuildIdle
    /\ CycleUnused
    /\ FilterUnused
    /\ LoadUnused

SpecNested == NestedInit /\ [][BuildNext]_vars

(***************************************************************************)
(* buildGraph called twice on the same loaded data                         *)
(***************************************************************************)
\* the caller calls buildGraph(loadedData) again: the locals start empty, the
\* module-level table and the random number generator are as the first call
\* left them
BuildAgain ==
    /\ bpc = "built"
    /\ run = 1
    /\ run' = 2
    /\ firstGraph' = graph
    /\ bpc' = "idle"
    /\ nodes' = <<>>
    /\ edges' = <<>>
    /\ nodeMap' = <<>>
    /\ validEdges' = <<>>
    /\ orphanedCount' = 0
    /\ graph' = NoGraph
    /\ UNCHANGED <<loadedData, nodeIdToNormalizedId, rand>>
    /\ UNCHANGED <<cycleVars, filterVars, loadVars>>

\* one circular, in the first primary file, and any part of the cache, with
\* or without the entry whose pdf reference has the entry's own url
RebuildInputs ==
    {[mainFiles |-> <<MainFile(<<[doc |-> doc, at |-> [file |-> 1, letter |-> FALSE]]>>, 1),
                      MainFile(<<>>, 2)>>,
      cache |-> SubCache(keep, 1) \o own] :
        doc \in DocPool, keep \in SUBSET (1..Len(CacheEntries)),
        own \in {<<>>, <<KU>>}}

RebuildInit ==
    /\ loadedData \in RebuildInputs
    /\ BuildIdle
    /\ CycleUnused
    /\ FilterUnused
    /\ LoadUnused

RebuildNext ==
    \/ ExtractMain
    \/ ExtractCache
    \/ Deduplicate
    \/ ValidateEdges
    \/ FinishBuild
    \/ BuildAgain

SpecRebuild == RebuildInit /\ [][RebuildNext]_vars

(***************************************************************************)
(* buildGraph on documents with malformed records                          *)
(***************************************************************************)
\* DocA with a null among its references
DocNullRef ==
    [DocA EXCEPT !.references = <<NullValue, Ref("circular", sRefB, <<>>, <<>>)>>]

YearEntries ==
    {[circulars |-> <<DocB>>, circular_letters |-> <<>>],
     [circulars |-> <<NullValue, DocNullRef>>, circular_letters |-> <<NullValue>>],
     NullValue}

\* a cache entry with a null among its references, and a key whose value is null
MalformedCacheEntries ==
    {KA,
     [KD EXCEPT !.references = <<NullValue>> \o @],
     [id |-> sIdC, null |-> TRUE]}

MaxEntries == 2

MalformedInputs ==
    {[mainFiles |-> <<[department |-> FileDepartments[1], years |-> years]>>,
      cache |-> cache] :
        years \in UNION {[1..n -> YearEntries] : n \in 0..MaxEntries},
        cache \in UNION {[1..n -> MalformedCacheEntries] : n \in 0..MaxEntries}}

MalformedInit ==
    /\ loadedData \in MalformedInputs
    /\ BuildIdle
    /\ CycleUnused
    /\ FilterUnused
    /\ LoadUnused

SpecMalformed == MalformedInit /\ [][BuildNext]_vars

(***************************************************************************)
(* loadDataFiles (data-loader.js)                                          *)
(*                                                                         *)
(* A value that is an object or null is a sequence: <<>> for null, <<d>>   *)
(* for the object d.                                                       *)
(***************************************************************************)
\* how the fetch of a source ends: fetch rejects, the status is not ok, the
\* body is not JSON, or the body is the document
FetchOutcomes == {"rejected", "notOk", "invalidJSON", "ok"}

\* the circular each primary source holds: the second has the normalized
\* title of the first, the third its ID, the last has no ID, url or title
SourceCirculars == <<DocA, DocA2, DocA0, DocB, DocN>>

SourceDepartments ==
    << <<"A","C","D">>, <<"B","P","D">>, <<"B","P","R","D">>, <<"B","S","D">>, <<>> >>

SourceIndex(url) == CHOOSE i \in 1..Len(MainDataFiles) : MainDataFiles[i] = url

\* the document a primary source or the cache source holds
DocumentOf(url) ==
    IF url = CacheDataFile THEN <<KA, KD>>
    ELSE [department |-> SourceDepartments[SourceIndex(url)],
          years |-> << [circulars |-> <<SourceCirculars[SourceIndex(url)]>>,
                        circular_letters |-> <<>>] >>]

\* a loader that does not test response.ok
loadJSONFileIgnoringStatus(url, outcome) ==
    IF outcome \in {"ok", "notOk"} THEN <<DocumentOf(url)>> ELSE Null

\* loadJSONFile(url), for the way its fetch ends
loadJSONFile(url, outcome) ==
    IF outcome = "ok" THEN <<DocumentOf(url)>> ELSE Null

RECURSIVE FilterNotNull(_)
\* mainFilesData.filter(data => data !== null)
FilterNotNull(results) ==
    IF results = <<>> THEN <<>>
    ELSE (IF Head(results) # Null THEN <<Head(results)[1]>> ELSE <<>>)
         \o FilterNotNull(Tail(results))

\* an array of results filled in the order the promises settle
CompletionSlot(i, settled) == Cardinality(DOMAIN settled) + 1

\* Promise.all(mainFilePromises): the value of promise i is element i
ResultSlot(i, settled) == i

\* one of the loadJSONFile promises of the primary files settles
SettleMainFile ==
    /\ lpc = "main"
    /\ \E i \in 1..Len(MainDataFiles), outcome \in FetchOutcomes :
          /\ MainDataFiles[i] \notin DOMAIN fetched
          /\ mainFilesData' = [mainFilesData EXCEPT
                                 ![ResultSlot(i, fetched)] =
                                     loadJSONFile(MainDataFiles[i], outcome)]
          /\ outOfOrder' = (outOfOrder \/ \E j \in (i + 1)..Len(MainDataFiles) :
                                              MainDataFiles[j] \in DOMAIN fetched)
          /\ fetched' = [file \in DOMAIN fetched \cup {MainDataFiles[i]} |->
                            IF file = MainDataFiles[i] THEN outcome ELSE fetched[file]]
    /\ UNCHANGED <<lpc, cacheData, loaded>>
    /\ UNCHANGED <<buildVars, cycleVars, filterVars>>

\* Promise.all has settled: the cache file is loaded
LoadCacheFile ==
    /\ lpc = "main"
    /\ \A i \in 1..Len(MainDataFiles) : MainDataFiles[i] \in DOMAIN fetched
    /\ \E outcome \in FetchOutcomes :
          /\ cacheData' = loadJSONFile(CacheDataFile, outcome)
          /\ fetched' = [file \in DOMAIN fetched \cup {CacheDataFile} |->
                            IF file = CacheDataFile THEN outcome ELSE fetched[file]]
    /\ lpc' = "cache"
    /\ UNCHANGED <<mainFilesData, loaded, outOfOrder>>
    /\ UNCHANGED <<buildVars, cycleVars, filterVars>>

\* the statistics and the return of loadDataFiles
ReturnLoaded ==
    /\ lpc = "cache"
    /\ LET loadedMainFiles == FilterNotNull(mainFilesData)
       IN  loaded' = [mainFiles |-> loadedMainFiles,
                      cache |-> cacheData,
                      stats |-> [loadedCount |-> Len(loadedMainFiles),
                                 totalCount |-> Len(MainDataFiles),
                                 hasCache |-> cacheData # Null]]
    /\ lpc' = "done"
    /\ UNCHANGED <<fetched, mainFilesData, cacheData, outOfOrder>>
    /\ UNCHANGED <<buildVars, cycleVars, filterVars>>

LoadInit ==
    /\ LoadIdle
    /\ BuildUnused
    /\ CycleUnused
    /\ FilterUnused

LoadNext ==
    \/ SettleMainFile
    \/ LoadCacheFile
    \/ ReturnLoaded

SpecLoad == LoadInit /\ [][LoadNext]_vars

(***************************************************************************)
(* The application start: loadDataFiles, then buildGraph on its result     *)
(***************************************************************************)
\* buildGraph(loadedData) with the value loadDataFiles returned
HandToBuilder ==
    /\ lpc = "done"
    /\ bpc = "unloaded"
    /\ bpc' = "idle"
    /\ loadedData' = [mainFiles |-> loaded.mainFiles,
                      cache |-> IF loaded.cache = Null THEN <<>> ELSE loaded.cache[1]]
    /\ UNCHANGED <<nodes, edges, nodeIdToNormalizedId, rand, nodeMap,
                   validEdges, orphanedCount, graph, run, firstGraph>>
    /\ UNCHANGED <<cycleVars, filterVars, loadVars>>

\* the page has loaded its scripts and nothing has run
StartInit ==
    /\ LoadIdle
    /\ loadedData = [mainFiles |-> <<>>, cache |-> <<>>]
    /\ bpc = "unloaded"
    /\ nodes = <<>>
    /\ edges = <<>>
    /\ nodeIdToNormalizedId = EmptyMap
    /\ rand = 0
    /\ nodeMap = <<>>
    /\ validEdges = <<>>
    /\ orphanedCount = 0
    /\ graph = NoGraph
    /\ run = 1
    /\ firstGraph = NoGraph
    /\ CycleUnused
    /\ FilterUnused

StartNext ==
    \/ SettleMainFile
    \/ LoadCacheFile
    \/ ReturnLoaded
    \/ HandToBuilder
    \/ ExtractMain
    \/ ExtractCache
    \/ Deduplicate
    \/ ValidateEdges
    \/ FinishBuild

SpecStart == StartInit /\ [][StartNext]_vars

(***************************************************************************)
(* Cycle analysis of a graph: detectCycles, then applyCycleInfo            *)
(*                                                                         *)
(* The graphs are the graphs over MaxNodes nodes, listed n1, n2, ..., with *)
(* at most MaxEdges edges in any order, self-loops and parallel edges      *)
(* included.  A circular-type edge may join any ordered pair of nodes; a   *)
(* pdf edge joins a node to the next node of the listing (cyclically), so  *)
(* that pdf edges can close rings of their own.  Every listing order of    *)
(* the nodes is covered up to the renaming of nodes.                       *)
(***************************************************************************)
MaxNodes == 3

MaxEdges == 3

GraphNodeId(i) == <<"n", DigitSeq[i + 1]>>

GraphNode(i) ==
    CyNode(CircularNode(GraphNodeId(i),
                        [title |-> <<>>, date |-> <<>>, url |-> <<>>, content |-> <<>>],
                        Other))

EdgeShapes ==
    [source : 1..MaxNodes, target : 1..MaxNodes, refType : {"circular"}]
    \cup {[source |-> i, target |-> (i % MaxNodes) + 1, refType |-> "pdf"] : i \in 1..MaxNodes}

GraphEdge(shape, k) ==
    CyEdge([source |-> GraphNodeId(shape.source), target |-> GraphNodeId(shape.target),
            refType |-> shape.refType, refTitle |-> <<>>, refUrl |-> <<>>,
            id |-> EdgeId(GraphNodeId(shape.source), GraphNodeId(shape.target), k - 1)])

CycleGraphs ==
    {[nodes |-> [i \in 1..MaxNodes |-> GraphNode(i)],
      edges |-> [k \in 1..Len(shapes) |-> GraphEdge(shapes[k], k)]] :
        shapes \in UNION {[1..n -> EdgeShapes] : n \in 0..MaxEdges}}

\* const cycleInfo = detectCycles(graphData)
DetectCycles ==
    /\ cpc = "idle"
    /\ LET cs == detectCyclesRun(graphData)
       IN  /\ cycleInfo' = detectCyclesResult(cs)
           /\ dfsLog' = [entered |-> cs.entered, examined |-> cs.examined]
    /\ cpc' = "detected"
    /\ UNCHANGED <<graphData, nodeCycles>>
    /\ UNCHANGED <<buildVars, filterVars, loadVars>>

\* applyCycleInfo(graphData, cycleInfo)
ApplyCycleInfo ==
    /\ cpc = "detected"
    /\ graphData' = applyCycleInfo(graphData, cycleInfo)
    /\ cpc' = "annotated"
    /\ UNCHANGED <<cycleInfo, nodeCycles, dfsLog>>
    /\ UNCHANGED <<buildVars, filterVars, loadVars>>

\* getCyclesForNode(node.data.id, cycleInfo), for each node of the annotated
\* graph; the graph has nodes, so the answers are not the empty sequence
GetCyclesForNode ==
    /\ cpc = "annotated"
    /\ nodeCycles = <<>>
    /\ nodeCycles' = [i \in 1..Len(graphData.nodes) |->
                         getCyclesForNode(graphData.nodes[i].id, cycleInfo)]
    /\ UNCHANGED <<graphData, cpc, cycleInfo, dfsLog>>
    /\ UNCHANGED <<buildVars, filterVars, loadVars>>

CycleInit ==
    /\ graphData \in CycleGraphs
    /\ CycleIdle
    /\ BuildUnused
    /\ FilterUnused
    /\ LoadUnused

CycleNext ==
    \/ DetectCycles
    \/ ApplyCycleInfo
    \/ GetCyclesForNode

SpecCycle == CycleInit /\ [][CycleNext]_vars

(***************************************************************************)
(* The filter controls, handler by handler                                 *)
(***************************************************************************)
sBSD == <<"B", "S", "D">>

sACD == <<"A", "C", "D">>

CyNodeData(id, title, department, year, inCycle) ==
    [id |-> id, title |-> title, department |-> department, year |-> year,
     inCycle |-> inCycle]

CyEdgeData(source, target) == [source |-> source, target |-> target]

\* a two-cycle with a PDF leaf without a year, and an isolated circular
GraphMixed ==
    [nodes |-> << CyNodeData(<<"A", " ", "1">>, <<"A", "l", "p", "h", "a">>, sBSD, 2020, TRUE),
                  CyNodeData(<<"B", " ", "2">>, <<"b", "e", "t", "a">>, sBSD, 2021, TRUE),
                  CyNodeData(<<"u">>, PdfDocument, sACD, NoYear, FALSE),
                  CyNodeData(<<"D", " ", "3">>, <<"a", "l", "p", "h", "a", " ", "d">>,
                             sACD, 2020, FALSE) >>,
     edges |-> << CyEdgeData(<<"A", " ", "1">>, <<"B", " ", "2">>),
                  CyEdgeData(<<"B", " ", "2">>, <<"A", " ", "1">>),
                  CyEdgeData(<<"A", " ", "1">>, <<"u">>) >>]

\* no node has a year; a self-loop and an isolated node
GraphNoYears ==
    [nodes |-> << CyNodeData(<<"X">>, <<"b", "e", "t", "a">>, Other, NoYear, TRUE),
                  CyNodeData(<<"Y">>, <<>>, sBSD, NoYear, FALSE) >>,
     edges |-> << CyEdgeData(<<"X">>, <<"X">>) >>]

FilterGraphs == {GraphMixed, GraphNoYears}

\* what the user types into the search box
SearchTexts == {<<>>, <<" ", "A", "l">>}

\* the slider positions the user drags a handle to
YearChoices == {DefaultYearMin, 2020, 2021, DefaultYearMax}

DisplayOptions == {"showCyclesOnly", "showLabels", "showIsolated"}

RECURSIVE AddAll(_, _)
AddAll(set, values) ==
    IF values = <<>> THEN set ELSE AddAll(SetAdd(set, Head(values)), Tail(values))

\* page load: initializeDepartmentFilters (which ends with loadFilterState),
\* then initializeYearFilters
InitializeControls ==
    /\ uiPhase = "loading"
    /\ LET sortedDepartments == SortedDepartments(cyGraph)
           added    == [activeFilters EXCEPT
                          !.departments = AddAll(@, sortedDepartments)]
           saved    == filterStateItem
           restored == IF Restores(saved) THEN RestoredFilters(added, saved) ELSE added
           minYear  == DataMinYear(cyGraph)
           maxYear  == DataMaxYear(cyGraph)
       IN  /\ classes' = IF Restores(saved) THEN applyFilters(classes, cyGraph, restored)
                         ELSE classes
           /\ appliedFilters' = IF Restores(saved) THEN <<restored>>
                                ELSE appliedFilters
           /\ activeFilters' = [restored EXCEPT !.yearMin = minYear, !.yearMax = maxYear]
           /\ dom' = [dom EXCEPT
                        !.departments = {d \in Members(sortedDepartments) :
                                            SetHas(restored.departments, d)},
                        !.min = minYear, !.max = maxYear,
                        !.yearMin = minYear, !.yearMax = maxYear,
                        !.showCyclesOnly = restored.showCyclesOnly,
                        !.showLabels = restored.showLabels,
                        !.showIsolated = restored.showIsolated]
    /\ uiPhase' = "ready"
    /\ UNCHANGED <<cyGraph, filterStateItem, searchTimeout, timerLeft, sinceInput, burst>>
    /\ lastOp' = "initializeControls"
    /\ UNCHANGED <<buildVars, cycleVars, loadVars>>

\* applyFilters() followed by saveFilterState(), for the new filter state
ApplyAndSave(filters) ==
    /\ activeFilters' = filters
    /\ classes' = applyFilters(classes, cyGraph, filters)
    /\ appliedFilters' = <<filters>>
    /\ filterStateItem' = saveFilterState(filters)

\* applyFilters() alone
ApplyOnly(filters) ==
    /\ activeFilters' = filters
    /\ classes' = applyFilters(classes, cyGraph, filters)
    /\ appliedFilters' = <<filters>>
    /\ UNCHANGED filterStateItem

\* the user toggles a department checkbox
onDepartmentFilterChange ==
    /\ uiPhase = "ready"
    /\ \E dept \in Members(SortedDepartments(cyGraph)) :
          LET checked == dept \notin dom.departments
          IN  /\ dom' = [dom EXCEPT !.departments =
                            IF checked THEN @ \cup {dept} ELSE @ \ {dept}]
              /\ ApplyAndSave([activeFilters EXCEPT !.departments =
                            IF checked THEN SetAdd(@, dept) ELSE SetDelete(@, dept)])
    /\ UNCHANGED <<uiPhase, cyGraph, searchTimeout, timerLeft, sinceInput, burst>>
    /\ lastOp' = "onDepartmentFilterChange"
    /\ UNCHANGED <<buildVars, cycleVars, loadVars>>

\* a year listener without the `if (yearMin > yearMax)` branch
onYearFilterChangeUnclamped ==
    /\ uiPhase = "ready"
    /\ \E target \in {"year-min", "year-max"}, value \in YearChoices \cap (dom.min..dom.max) :
          LET yearMin == IF target = "year-min" THEN value ELSE dom.yearMin
              yearMax == IF target = "year-max" THEN value ELSE dom.yearMax
          IN  /\ value # (IF target = "year-min" THEN dom.yearMin ELSE dom.yearMax)
              /\ dom' = [dom EXCEPT !.yearMin = yearMin, !.yearMax = yearMax]
              /\ ApplyAndSave([activeFilters EXCEPT !.yearMin = yearMin,
                                                    !.yearMax = yearMax])
    /\ UNCHANGED <<uiPhase, cyGraph, searchTimeout, timerLeft, sinceInput, burst>>
    /\ lastOp' = "onYearFilterChange"
    /\ UNCHANGED <<buildVars, cycleVars, loadVars>>

\* the user drags one of the two year sliders to another value
onYearFilterChange ==
    /\ uiPhase = "ready"
    /\ \E target \in {"year-min", "year-max"}, value \in YearChoices \cap (dom.min..dom.max) :
          LET yearMin == IF target = "year-min" THEN value ELSE dom.yearMin
              yearMax == IF target = "year-max" THEN value ELSE dom.yearMax
          IN  /\ value # (IF target = "year-min" THEN dom.yearMin ELSE dom.yearMax)
              /\ IF yearMin > yearMax
                 THEN IF target = "year-min"
                      THEN /\ dom' = [dom EXCEPT !.yearMin = yearMax, !.yearMax = yearMax]
                           /\ ApplyAndSave([activeFilters EXCEPT !.yearMin = yearMax])
                      ELSE /\ dom' = [dom EXCEPT !.yearMin = yearMin, !.yearMax = yearMin]
                           /\ ApplyAndSave([activeFilters EXCEPT !.yearMax = yearMin])
                 ELSE /\ dom' = [dom EXCEPT !.yearMin = yearMin, !.yearMax = yearMax]
                      /\ ApplyAndSave([activeFilters EXCEPT !.yearMin = yearMin,
                                                            !.yearMax = yearMax])
    /\ UNCHANGED <<uiPhase, cyGraph, searchTimeout, timerLeft, sinceInput, burst>>
    /\ lastOp' = "onYearFilterChange"
    /\ UNCHANGED <<buildVars, cycleVars, loadVars>>

\* setTimeout(..., 300)
DebounceDelay == 300

\* the clock advances in steps of DebounceDelay \div ClockSteps milliseconds
ClockSteps == 3

\* a listener that leaves a pending timer running instead of restarting it
KeepPendingTimer(pending, left) == IF pending THEN left ELSE DebounceDelay

\* clearTimeout(searchTimeout); searchTimeout = setTimeout(..., 300)
RestartTimer(pending, left) == DebounceDelay

\* the user edits the search box: the 'input' listener restarts the timer
SearchInputEvent ==
    /\ uiPhase = "ready"
    /\ \E text \in SearchTexts \ {dom.searchInput} :
          dom' = [dom EXCEPT !.searchInput = text]
    /\ searchTimeout' = TRUE
    /\ timerLeft' = RestartTimer(searchTimeout, timerLeft)
    /\ sinceInput' = 0
    /\ burst' = IF searchTimeout THEN 2 ELSE 1
    /\ UNCHANGED <<uiPhase, cyGraph, classes, activeFilters, filterStateItem,
                   appliedFilters>>
    /\ lastOp' = "input"
    /\ UNCHANGED <<buildVars, cycleVars, loadVars>>

\* onSearchInput(event): event.target.value is the text of the box
onSearchInput ==
    ApplyOnly([activeFilters EXCEPT !.searchQuery = trim(toLowerCase(dom.searchInput))])

\* time passes while a timer is pending and not yet due
Tick ==
    /\ uiPhase = "ready"
    /\ searchTimeout
    /\ timerLeft > 0
    /\ LET step == DebounceDelay \div ClockSteps
       IN  /\ timerLeft' = IF timerLeft > step THEN timerLeft - step ELSE 0
           /\ sinceInput' = IF sinceInput + step < DebounceDelay
                            THEN sinceInput + step ELSE DebounceDelay
    /\ UNCHANGED <<uiPhase, cyGraph, classes, activeFilters, filterStateItem, dom,
                   searchTimeout, burst, appliedFilters, lastOp>>
    /\ UNCHANGED <<buildVars, cycleVars, loadVars>>

\* the whole delay passes with no 'input' event
DelayElapses ==
    /\ uiPhase = "ready"
    /\ searchTimeout
    /\ timerLeft > 0
    /\ timerLeft' = 0
    /\ sinceInput' = DebounceDelay
    /\ UNCHANGED <<uiPhase, cyGraph, classes, activeFilters, filterStateItem, dom,
                   searchTimeout, burst, appliedFilters, lastOp>>
    /\ UNCHANGED <<buildVars, cycleVars, loadVars>>

\* the debounce timer is due and its callback runs
SearchTimeoutFires ==
    /\ uiPhase = "ready"
    /\ searchTimeout
    /\ timerLeft = 0
    /\ onSearchInput
    /\ searchTimeout' = FALSE
    /\ timerLeft' = 0
    /\ sinceInput' = 0
    /\ UNCHANGED <<uiPhase, cyGraph, dom, burst>>
    /\ lastOp' = "onSearchInput"
    /\ UNCHANGED <<buildVars, cycleVars, loadVars>>

\* the user presses Enter in the search box
SearchEnterKey ==
    /\ uiPhase = "ready"
    /\ onSearchInput
    /\ searchTimeout' = FALSE
    /\ timerLeft' = 0
    /\ sinceInput' = 0
    /\ UNCHANGED <<uiPhase, cyGraph, dom, burst>>
    /\ lastOp' = "keydown"
    /\ UNCHANGED <<buildVars, cycleVars, loadVars>>

\* the user clicks the clear button of the search box
clearSearch ==
    /\ uiPhase = "ready"
    /\ dom' = [dom EXCEPT !.searchInput = <<>>]
    /\ ApplyOnly([activeFilters EXCEPT !.searchQuery = <<>>])
    /\ UNCHANGED <<uiPhase, cyGraph, searchTimeout, timerLeft, sinceInput, burst>>
    /\ lastOp' = "clearSearch"
    /\ UNCHANGED <<buildVars, cycleVars, loadVars>>

\* the user toggles one of the three display checkboxes
onDisplayOptionChange ==
    /\ uiPhase = "ready"
    /\ \E option \in DisplayOptions :
          LET checked == ~dom[option]
          IN  /\ dom' = [dom EXCEPT ![option] = checked]
              /\ ApplyAndSave([activeFilters EXCEPT ![option] = checked])
    /\ UNCHANGED <<uiPhase, cyGraph, searchTimeout, timerLeft, sinceInput, burst>>
    /\ lastOp' = "onDisplayOptionChange"
    /\ UNCHANGED <<buildVars, cycleVars, loadVars>>

\* a reset that leaves the search string in activeFilters
ResetStateKeepingSearch(filters, checkboxValues, controls) ==
    [departments    |-> AddAll(filters.departments, checkboxValues),
     yearMin        |-> controls.min,
     yearMax        |-> controls.max,
     searchQuery    |-> filters.searchQuery,
     showCyclesOnly |-> FALSE,
     showLabels     |-> FALSE,
     showIsolated   |-> TRUE]

\* activeFilters as resetFilters leaves it
ResetState(filters, checkboxValues, controls) ==
    [departments    |-> AddAll(filters.departments, checkboxValues),
     yearMin        |-> controls.min,
     yearMax        |-> controls.max,
     searchQuery    |-> <<>>,
     showCyclesOnly |-> FALSE,
     showLabels     |-> FALSE,
     showIsolated   |-> TRUE]

\* the user clicks Reset
resetFilters ==
    /\ uiPhase = "ready"
    /\ LET filters == ResetState(activeFilters, SortedDepartments(cyGraph), dom)
       IN  /\ activeFilters' = filters
           /\ classes' = applyFilters(classes, cyGraph, filters)
           /\ appliedFilters' = <<filters>>
    /\ dom' = [dom EXCEPT !.departments = Members(SortedDepartments(cyGraph)),
                          !.yearMin = dom.min, !.yearMax = dom.max,
                          !.searchInput = <<>>, !.showCyclesOnly = FALSE,
                          !.showLabels = FALSE, !.showIsolated = TRUE]
    /\ filterStateItem' = NoItem
    /\ UNCHANGED <<uiPhase, cyGraph, searchTimeout, timerLeft, sinceInput, burst>>
    /\ lastOp' = "resetFilters"
    /\ UNCHANGED <<buildVars, cycleVars, loadVars>>

\* node.neighborhood(): the nodes joined to the node by an edge
Neighborhood(cyGraphArg, id) ==
    {i \in 1..Len(cyGraphArg.nodes) :
        \E k \in 1..Len(cyGraphArg.edges) :
            \/ cyGraphArg.edges[k].source = id
                  /\ cyGraphArg.edges[k].target = cyGraphArg.nodes[i].id
            \/ cyGraphArg.edges[k].target = id
                  /\ cyGraphArg.edges[k].source = cyGraphArg.nodes[i].id}

\* node.connectedEdges()
ConnectedEdges(cyGraphArg, id) ==
    {k \in 1..Len(cyGraphArg.edges) :
        cyGraphArg.edges[k].source = id \/ cyGraphArg.edges[k].target = id}

\* the user clicks a node: everything is dimmed but the node, its neighbours
\* and its edges, and the node is highlighted
TapNode ==
    /\ uiPhase = "ready"
    /\ \E i \in 1..Len(cyGraph.nodes) :
          LET id == cyGraph.nodes[i].id
          IN  classes' = [classes EXCEPT
                  !.dimmedNodes = (1..Len(cyGraph.nodes))
                                      \ ({i} \cup Neighborhood(cyGraph, id)),
                  !.dimmedEdges = (1..Len(cyGraph.edges)) \ ConnectedEdges(cyGraph, id),
                  !.highlightedNodes = @ \cup {i}]
    /\ UNCHANGED <<uiPhase, cyGraph, activeFilters, filterStateItem, dom,
                   searchTimeout, timerLeft, sinceInput, burst, appliedFilters>>
    /\ lastOp' = "tap node"
    /\ UNCHANGED <<buildVars, cycleVars, loadVars>>

\* the user clicks the background of the graph (or closes the details
\* panel): cy.elements().removeClass('dimmed highlighted')
TapBackground ==
    /\ uiPhase = "ready"
    /\ classes' = [classes EXCEPT !.dimmedNodes = {}, !.dimmedEdges = {},
                                  !.highlightedNodes = {}]
    /\ UNCHANGED <<uiPhase, cyGraph, activeFilters, filterStateItem, dom,
                   searchTimeout, timerLeft, sinceInput, burst, appliedFilters>>
    /\ lastOp' = "tap"
    /\ UNCHANGED <<buildVars, cycleVars, loadVars>>

\* the user reloads the page: the script and the document start afresh,
\* localStorage stays
ReloadPage ==
    /\ uiPhase = "ready"
    /\ uiPhase' = "loading"
    /\ classes' = NoClasses
    /\ activeFilters' = InitialFilters
    /\ dom' = FreshDom
    /\ searchTimeout' = FALSE
    /\ timerLeft' = 0
    /\ sinceInput' = 0
    /\ burst' = 0
    /\ appliedFilters' = NotApplied
    /\ UNCHANGED <<cyGraph, filterStateItem>>
    /\ lastOp' = "reload"
    /\ UNCHANGED <<buildVars, cycleVars, loadVars>>

\* a text under 'filterState' that is not JSON
UnparseableItem == << <<"{">> >>

\* a record under 'filterState' whose year bounds are inverted
InvertedYearsItem ==
    << <<"departments", <<sBSD>>>>,
       <<"yearMin", 2021>>,
       <<"yearMax", 2020>>,
       <<"showCyclesOnly", FALSE>>,
       <<"showLabels", FALSE>>,
       <<"showIsolated", TRUE>> >>

\* what localStorage holds under 'filterState' when the page is first opened
StoredItems == {NoItem, UnparseableItem, InvertedYearsItem}

FilterInit ==
    /\ cyGraph \in FilterGraphs
    /\ filterStateItem \in StoredItems
    /\ FilterIdle
    /\ BuildUnused
    /\ CycleUnused
    /\ LoadUnused

FilterNext ==
    \/ InitializeControls
    \/ onDepartmentFilterChange
    \/ onYearFilterChange
    \/ SearchInputEvent
    \/ DelayElapses
    \/ SearchTimeoutFires
    \/ SearchEnterKey
    \/ clearSearch
    \/ onDisplayOptionChange
    \/ resetFilters
    \/ ReloadPage

SpecFilter == FilterInit /\ [][FilterNext]_vars

(***************************************************************************)
(* The search box with a clock: the listeners of setupSearchControls, the  *)
(* clear button and the reset button, time advancing in steps              *)
(***************************************************************************)
SearchNext ==
    \/ InitializeControls
    \/ SearchInputEvent
    \/ Tick
    \/ SearchTimeoutFires
    \/ SearchEnterKey
    \/ clearSearch
    \/ resetFilters
    \/ ReloadPage

SpecSearch == FilterInit /\ [][SearchNext]_vars

(***************************************************************************)
(* The search box, the display options and the reset button together with *)
(* the click handlers of the graph, which put 'dimmed' and 'highlighted'   *)
(* on its elements                                                         *)
(***************************************************************************)
HighlightNext ==
    \/ InitializeControls
    \/ SearchInputEvent
    \/ SearchEnterKey
    \/ clearSearch
    \/ onDisplayOptionChange
    \/ resetFilters
    \/ TapNode
    \/ TapBackground
    \/ ReloadPage

SpecHighlight == FilterInit /\ [][HighlightNext]_vars

(***************************************************************************)
(* Properties of the graph builder                                         *)
(***************************************************************************)
NodesWithId(nodeSeq, id) == {i \in 1..Len(nodeSeq) : nodeSeq[i].id = id}

\* C1: in the graph buildGraph returns, node ids are pairwise distinct and the
\* source and the target of every edge are each the id of exactly one node.
NoDanglingEdges ==
    bpc = "built" =>
        /\ \A i, j \in 1..Len(graph.nodes) :
               graph.nodes[i].id = graph.nodes[j].id => i = j
        /\ \A k \in 1..Len(graph.edges) :
               /\ Cardinality(NodesWithId(graph.nodes, graph.edges[k].source)) = 1
               /\ Cardinality(NodesWithId(graph.nodes, graph.edges[k].target)) = 1

\* a build that merged duplicate records, dropped an orphan and kept an edge
NoDanglingEdgesWitness ==
    /\ bpc = "built"
    /\ Len(graph.nodes) < Len(nodes)
    /\ orphanedCount > 0
    /\ Len(graph.edges) > 0

\* C8: every node's refCount is the number of validated edges that target it.
RefCountIsInDegree ==
    bpc = "built" =>
        \A i \in 1..Len(graph.nodes) :
            graph.nodes[i].refCount =
                Cardinality({k \in 1..Len(graph.edges) :
                                graph.edges[k].target = graph.nodes[i].id})

\* a node merged from several records that several references point at
RefCountIsInDegreeWitness ==
    /\ bpc = "built"
    /\ \E i \in 1..Len(graph.nodes) :
           /\ graph.nodes[i].refCount >= 2
           /\ Cardinality(NodesWithId(nodes, graph.nodes[i].id)) >= 2
    /\ \E i \in 1..Len(graph.nodes) : graph.nodes[i].refCount = 0

\* an id that names a node, literally or through the normalized-title table
Resolves(id) ==
    \/ MapHas(nodeMap, id)
    \/ id \in DOMAIN nodeIdToNormalizedId /\ MapHas(nodeMap, nodeIdToNormalizedId[id])

OrphanEdges == {k \in 1..Len(edges) : ~Resolves(edges[k].source) \/ ~Resolves(edges[k].target)}

\* C9: of the N extracted edges, the M whose source or target resolves to no node
\* are dropped and counted: N - M edges are returned and the orphan count is M.
OrphanAccounting ==
    bpc \in {"validated", "built"} =>
        /\ Len(validEdges) = Len(edges) - Cardinality(OrphanEdges)
        /\ orphanedCount = Cardinality(OrphanEdges)

\* orphans and kept edges together, one target resolved through the table
OrphanAccountingWitness ==
    /\ bpc = "validated"
    /\ orphanedCount > 0
    /\ Len(validEdges) > 0
    /\ \E k \in 1..Len(edges) :
           ~MapHas(nodeMap, edges[k].target) /\ Resolves(edges[k].target)

\* the field value the merge rule of the specification yields
PreferAuthoritative(authoritative, cached) ==
    IF authoritative = <<>> THEN cached ELSE authoritative

PreferAuthoritativeYear(authoritative, cached) ==
    IF authoritative = NoYear THEN cached ELSE authoritative

\* C10: when an id is produced by one authoritative record and one cache record,
\* title, date, year, url and content of the final node are the authoritative
\* record's value where it is non-empty and the cache record's value otherwise.
MergePrefersAuthoritative ==
    bpc = "built" =>
        \A i, j \in 1..Len(nodes) :
            (/\ nodes[i].id = nodes[j].id
             /\ ~nodes[i].fromCache /\ nodes[i].type = "circular"
             /\ nodes[j].fromCache
             /\ Cardinality(NodesWithId(nodes, nodes[i].id)) = 2)
            => LET final == nodeMap[MapIndex(nodeMap, nodes[i].id)]
               IN  /\ final.title = PreferAuthoritative(nodes[i].title, nodes[j].title)
                   /\ final.date = PreferAuthoritative(nodes[i].date, nodes[j].date)
                   /\ final.year = PreferAuthoritativeYear(nodes[i].year, nodes[j].year)
                   /\ final.url = PreferAuthoritative(nodes[i].url, nodes[j].url)
                   /\ final.content =
                          PreferAuthoritative(nodes[i].content, nodes[j].content)

\* C11: after deduplication a node is authoritative (fromCache = false) exactly
\* when at least one of the records carrying its id was authoritative, in
\* whatever order the records were met.
ProvenanceFlipsToAuthoritative ==
    bpc \in {"deduplicated", "validated", "built"} =>
        \A k \in 1..Len(nodeMap) :
            ~nodeMap[k].fromCache <=>
                \E i \in 1..Len(nodes) :
                    nodes[i].id = nodeMap[k].id /\ ~nodes[i].fromCache

\* the nesting level of the references array an edge was produced from
LevelOf(edge) == CHOOSE level \in 1..(MaxNesting + 1) : LevelTitle(level) = edge.refTitle

\* the levels the input nests
GivenLevels ==
    LET refs == IF loadedData.cache # <<>> THEN loadedData.cache[1].references
                ELSE loadedData.mainFiles[1].years[1].circulars[1].references
        RECURSIVE Count(_)
        Count(r) == IF r = <<>> THEN 0 ELSE 1 + Count(r[1].refs)
    IN  Count(refs)

\* C12 as stated: at most 10 levels are descended, the document's own
\* references array being the first; no edge comes from a deeper array, every
\* level within the cap yields its edge, and the build does not throw.
DepthCapTenLevels ==
    /\ bpc # "threw"
    /\ bpc \notin {"idle", "main"} =>
          /\ \A k \in 1..Len(edges) : LevelOf(edges[k]) <= MaxDepth
          /\ \A level \in 1..GivenLevels :
                level <= MaxDepth => \E k \in 1..Len(edges) : LevelOf(edges[k]) = level

\* C12 amended: the same with 11 levels (recursion depths 0 to 10).
DepthCapElevenLevels ==
    /\ bpc # "threw"
    /\ bpc \notin {"idle", "main"} =>
          /\ \A k \in 1..Len(edges) : LevelOf(edges[k]) <= MaxDepth + 1
          /\ \A level \in 1..GivenLevels :
                level <= MaxDepth + 1 =>
                    \E k \in 1..Len(edges) : LevelOf(edges[k]) = level
          /\ \A k \in 1..Len(nodes) :
                nodes[k].type # "circular" =>
                    \E level \in 1..(MaxDepth + 1) : nodes[k].title = LevelTitle(level)

\* a built graph whose input nests 12 levels: level 11 is extracted, level 12 not
DepthCapElevenLevelsWitness ==
    /\ bpc = "built"
    /\ GivenLevels = MaxDepth + 2
    /\ \E k \in 1..Len(edges) : LevelOf(edges[k]) = MaxDepth + 1
    /\ \A k \in 1..Len(edges) : LevelOf(edges[k]) # MaxDepth + 2

\* the extracted document records whose id normalizes to key, in extraction order
RegisteredAs(key) ==
    {i \in 1..Len(nodes) : nodes[i].type = "circular" /\ normalizeTitle(nodes[i].id) = key}

\* the id registered first under key
FirstRegistered(key) ==
    nodes[CHOOSE i \in RegisteredAs(key) : \A j \in RegisteredAs(key) : i <= j].id

\* the place in validEdges of the extracted edge j, when it is kept
ValidIndex(j) == Cardinality((1..j) \ OrphanEdges)

\* the circular-type edges that are kept and whose target is not literally a node id
ResolvedByTitle ==
    {j \in (1..Len(edges)) \ OrphanEdges :
        edges[j].refType = "circular" /\ ~MapHas(nodeMap, edges[j].target)}

\* C22: a circular-type reference whose normalized title is not itself a node
\* id resolves to the node registered first under that normalized title, in
\* extraction order.
FirstRegistrationWins ==
    bpc \in {"validated", "built"} =>
        \A j \in ResolvedByTitle :
            validEdges[ValidIndex(j)].target = FirstRegistered(edges[j].target)

\* the place of the first record with this id in extraction order
FirstRecord(id) == CHOOSE i \in NodesWithId(nodes, id) : \A j \in NodesWithId(nodes, id) : i <= j

TopReferences ==
    IF loadedData.cache # <<>> THEN loadedData.cache[1].references
    ELSE loadedData.mainFiles[1].years[1].circulars[1].references

RECURSIVE RefAt(_, _)
\* the reference that nests the next level, in the references array of `level`
RefAt(refs, level) == IF level = 1 THEN refs[1] ELSE RefAt(refs[1].refs, level - 1)

\* the pdf node nearest above `level` on the nesting chain, or the document
EnclosingSource(level) ==
    LET pdfs == {m \in 1..(level - 1) : RefAt(TopReferences, m).type = "pdf"}
    IN  IF pdfs = {} THEN sIdB
        ELSE <<"p", "d", "f", "_">>
                 \o LevelTitle(CHOOSE m \in pdfs : \A n \in pdfs : n <= m)

\* C28: an edge from the references nested in a circular-type reference has
\* the source of the enclosing array, an edge from the references nested in a
\* pdf reference has that pdf node as source: at every depth the source is the
\* nearest pdf node above on the nesting chain, or else the document.
NestedSourceAttribution ==
    bpc \notin {"idle", "threw"} =>
        /\ \A k \in 1..Len(edges) : edges[k].source = EnclosingSource(LevelOf(edges[k]))
        /\ \A k \in 1..Len(validEdges) :
               validEdges[k].source = EnclosingSource(LevelOf(validEdges[k]))

\* a built graph from circular and pdf references nested in turn: the pdf of
\* level 2, under a circular reference, hangs on the document, and the pdf of
\* level 4, under a circular reference inside that pdf, hangs on the pdf
NestedSourceAttributionWitness ==
    /\ bpc = "built"
    /\ \E k \in 1..Len(validEdges) :
           /\ LevelOf(validEdges[k]) = 2
           /\ validEdges[k].refType = "pdf"
           /\ validEdges[k].source = sIdB
    /\ \E k \in 1..Len(validEdges) :
           /\ LevelOf(validEdges[k]) = 4
           /\ validEdges[k].refType = "pdf"
           /\ validEdges[k].source = <<"p", "d", "f", "_">> \o LevelTitle(2)

\* C18: no malformed record (a null year entry, circular, cache entry or
\* reference) aborts the build: buildGraph never throws.
MalformedRecordNeverAborts == bpc # "threw"

\* C19: a second buildGraph on the same loaded data returns a graph with the
\* same nodes and edges, ids and every other field included, as the first.
BuildIsDeterministic ==
    (run = 2 /\ bpc = "built") => graph = firstGraph

(***************************************************************************)
(* Properties of the cycle detector                                        *)
(***************************************************************************)
CircularEdges == {k \in 1..Len(graphData.edges) : graphData.edges[k].refType = "circular"}

RECURSIVE ReachableFrom(_)
\* the node ids reachable from the set `seen` along circular-type edges
ReachableFrom(seen) ==
    LET next == seen \cup {graphData.edges[k].target :
                              k \in {c \in CircularEdges : graphData.edges[c].source \in seen}}
    IN  IF next = seen THEN seen ELSE ReachableFrom(next)

\* there is a directed path of zero or more circular-type edges from a to b
Reaches(a, b) == b \in ReachableFrom({a})

\* edge k lies on a closed directed path of circular-type edges
EdgeOnClosedPath(k) ==
    /\ k \in CircularEdges
    /\ Reaches(graphData.edges[k].target, graphData.edges[k].source)

\* the node lies on a closed directed path of circular-type edges
NodeOnClosedPath(id) ==
    \E k \in CircularEdges : graphData.edges[k].source = id /\ EdgeOnClosedPath(k)

InReportedCycleNodes(id) ==
    \E c \in 1..Len(cycleInfo.cycles) : SeqIncludes(cycleInfo.cycles[c].nodes, id)

InReportedCycleEdges(edgeId) ==
    \E c \in 1..Len(cycleInfo.cycles) : SeqIncludes(cycleInfo.cycles[c].edges, edgeId)

\* C2: after detectCycles and applyCycleInfo, every node and every edge on a
\* closed directed path of circular-type edges is marked inCycle / isCycleEdge
\* and appears in a reported cycle.
CycleDetectionExhaustive ==
    cpc = "annotated" =>
        /\ \A i \in 1..Len(graphData.nodes) :
               NodeOnClosedPath(graphData.nodes[i].id) =>
                   /\ graphData.nodes[i].inCycle
                   /\ InReportedCycleNodes(graphData.nodes[i].id)
        /\ \A k \in 1..Len(graphData.edges) :
               EdgeOnClosedPath(k) =>
                   /\ graphData.edges[k].isCycleEdge
                   /\ InReportedCycleEdges(graphData.edges[k].id)

EdgeWithId(edgeId) == CHOOSE k \in 1..Len(graphData.edges) : graphData.edges[k].id = edgeId

\* the reported cycle is a closed path: its i-th edge is a circular-type edge from
\* its i-th node to the next one, and the last edge returns to the first node
GenuineCycle(cycle) ==
    /\ Len(cycle.nodes) >= 1
    /\ Len(cycle.edges) = Len(cycle.nodes)
    /\ cycle.length = Len(cycle.nodes)
    /\ \A i \in 1..Len(cycle.edges) :
           /\ \E k \in 1..Len(graphData.edges) : graphData.edges[k].id = cycle.edges[i]
           /\ LET e == graphData.edges[EdgeWithId(cycle.edges[i])]
              IN  /\ e.refType = "circular"
                  /\ e.source = cycle.nodes[i]
                  /\ e.target = cycle.nodes[(i % Len(cycle.nodes)) + 1]

\* C3: every reported cycle is a genuine closed path of circular-type edges, a
\* node or edge is marked only if it is on a reported cycle, and a graph without
\* circular-type edges yields no cycle.
NoFalseCycles ==
    /\ cpc \in {"detected", "annotated"} =>
           /\ \A c \in 1..Len(cycleInfo.cycles) : GenuineCycle(cycleInfo.cycles[c])
           /\ \A id \in cycleInfo.nodesInCycles : InReportedCycleNodes(id)
           /\ \A edgeId \in cycleInfo.edgesInCycles : InReportedCycleEdges(edgeId)
           /\ CircularEdges = {} => cycleInfo.cycles = <<>>
    /\ \A i \in 1..Len(graphData.nodes) :
           graphData.nodes[i].inCycle =>
               cpc = "annotated" /\ InReportedCycleNodes(graphData.nodes[i].id)
    /\ \A k \in 1..Len(graphData.edges) :
           graphData.edges[k].isCycleEdge =>
               cpc = "annotated" /\ InReportedCycleEdges(graphData.edges[k].id)

\* an annotated graph with a reported cycle of two nodes, a pdf edge, and a node
\* that is on no cycle
NoFalseCyclesWitness ==
    /\ cpc = "annotated"
    /\ \E c \in 1..Len(cycleInfo.cycles) : cycleInfo.cycles[c].length = 2
    /\ \E k \in 1..Len(graphData.edges) : graphData.edges[k].refType = "pdf"
    /\ \E i \in 1..Len(graphData.nodes) : ~graphData.nodes[i].inCycle
    /\ \E i \in 1..Len(graphData.nodes) : graphData.nodes[i].inCycle

\* the nodes that carry a circular-type edge
RingNodes ==
    {graphData.edges[k].source : k \in CircularEdges}
    \cup {graphData.edges[k].target : k \in CircularEdges}

\* the circular-type edges form exactly one simple directed ring
IsSingleRing ==
    /\ CircularEdges # {}
    /\ \A id \in RingNodes :
          /\ Cardinality({k \in CircularEdges : graphData.edges[k].source = id}) = 1
          /\ Cardinality({k \in CircularEdges : graphData.edges[k].target = id}) = 1
    /\ \A a, b \in RingNodes : Reaches(a, b)

\* C13: when the circular-type edges form exactly one simple directed ring over
\* n >= 1 nodes, detection reports exactly one cycle, of length n, made of the
\* ring's nodes and edges, and all n nodes and n edges are marked.
SingleRingOneCycle ==
    (cpc \in {"detected", "annotated"} /\ IsSingleRing) =>
        /\ Len(cycleInfo.cycles) = 1
        /\ cycleInfo.cycles[1].length = Cardinality(RingNodes)
        /\ Len(cycleInfo.cycles[1].nodes) = Cardinality(RingNodes)
        /\ {cycleInfo.cycles[1].nodes[i] : i \in 1..Len(cycleInfo.cycles[1].nodes)}
              = RingNodes
        /\ Len(cycleInfo.cycles[1].edges) = Cardinality(CircularEdges)
        /\ {cycleInfo.cycles[1].edges[i] : i \in 1..Len(cycleInfo.cycles[1].edges)}
              = {graphData.edges[k].id : k \in CircularEdges}
        /\ cycleInfo.nodesInCycles = RingNodes
        /\ cycleInfo.edgesInCycles = {graphData.edges[k].id : k \in CircularEdges}
        /\ cpc = "annotated" =>
              /\ \A i \in 1..Len(graphData.nodes) :
                    graphData.nodes[i].inCycle <=> graphData.nodes[i].id \in RingNodes
              /\ \A k \in 1..Len(graphData.edges) :
                    graphData.edges[k].isCycleEdge <=> k \in CircularEdges

\* an annotated ring over three nodes
SingleRingOneCycleWitness ==
    /\ cpc = "annotated"
    /\ IsSingleRing
    /\ Cardinality(RingNodes) = 3
    /\ \A i \in 1..Len(graphData.nodes) : graphData.nodes[i].inCycle

\* the graphs whose MaxEdges circular-type edges all join the first two
\* nodes: self-loops, parallel edges and cycles in every combination
DenseGraphs ==
    {[nodes |-> [i \in 1..MaxNodes |-> GraphNode(i)],
      edges |-> [k \in 1..MaxEdges |-> GraphEdge(shapes[k], k)]] :
        shapes \in [1..MaxEdges -> [source : 1..2, target : 1..2,
                                    refType : {"circular"}]]}

DenseInit ==
    /\ graphData \in DenseGraphs
    /\ CycleIdle
    /\ BuildUnused
    /\ FilterUnused
    /\ LoadUnused

\* the page calls detectCycles once the graph is built
SpecCycleLive == DenseInit /\ [][CycleNext]_vars /\ WF_vars(DetectCycles)

\* how often v occurs in seq
Occurrences(seq, v) == Cardinality({i \in 1..Len(seq) : seq[i] = v})

\* C26: detectCycles returns on every graph, self-loops, parallel edges and
\* cycles included; dfs is entered exactly once for every node and never for
\* a node it was entered for before; the adjacency entry of every
\* circular-type edge is examined exactly once and no other edge is examined.
DfsOncePerNode ==
    cpc # "idle" =>
        /\ \A i \in 1..Len(graphData.nodes) :
               Occurrences(dfsLog.entered, graphData.nodes[i].id) = 1
        /\ Len(dfsLog.entered) = Len(graphData.nodes)
        /\ \A k \in 1..Len(graphData.edges) :
               Occurrences(dfsLog.examined, graphData.edges[k].id)
                   = IF graphData.edges[k].refType = "circular" THEN 1 ELSE 0
        /\ Len(dfsLog.examined) = Cardinality(CircularEdges)

DetectCyclesTerminates == []DfsOncePerNode /\ <>(cpc # "idle")

\* a detected graph whose cycle of two nodes is closed by two parallel
\* circular-type edges
DetectCyclesTerminatesWitness ==
    /\ cpc = "detected"
    /\ \E k, l \in CircularEdges :
           /\ k # l
           /\ graphData.edges[k].source = graphData.edges[l].source
           /\ graphData.edges[k].target = graphData.edges[l].target
           /\ graphData.edges[k].source # graphData.edges[k].target
    /\ \E c \in 1..Len(cycleInfo.cycles) : cycleInfo.cycles[c].length = 2

\* C27: no two reported cycles have the same node sequence, parallel
\* circular-type edges or not.
NoCycleReportedTwice ==
    cpc # "idle" =>
        \A a, b \in 1..Len(cycleInfo.cycles) :
            cycleInfo.cycles[a].nodes = cycleInfo.cycles[b].nodes => a = b

\* the ordinals of the reported cycles whose node sequence holds the node
CyclesThroughNode(id) ==
    {d - 1 : d \in {c \in 1..Len(cycleInfo.cycles) : SeqIncludes(cycleInfo.cycles[c].nodes, id)}}

\* the ordinals of the reported cycles whose edge sequence holds the edge
CyclesThroughEdge(id) ==
    {d - 1 : d \in {c \in 1..Len(cycleInfo.cycles) : SeqIncludes(cycleInfo.cycles[c].edges, id)}}

\* C20: after applyCycleInfo the cycleIds of every node and edge are exactly
\* the ordinals of the reported cycles that contain it, inCycle / isCycleEdge
\* is true iff cycleIds is not empty, and getCyclesForNode returns exactly the
\* cycles whose ordinals are the node's cycleIds, each once.
CycleIdsAreExact ==
    /\ cpc = "annotated" =>
        /\ \A i \in 1..Len(graphData.nodes) :
               /\ graphData.nodes[i].cycleIds = CyclesThroughNode(graphData.nodes[i].id)
               /\ graphData.nodes[i].inCycle <=> graphData.nodes[i].cycleIds # {}
        /\ \A k \in 1..Len(graphData.edges) :
               /\ graphData.edges[k].cycleIds = CyclesThroughEdge(graphData.edges[k].id)
               /\ graphData.edges[k].isCycleEdge <=> graphData.edges[k].cycleIds # {}
    /\ nodeCycles # <<>> =>
        \A i \in 1..Len(graphData.nodes) :
            /\ {nodeCycles[i][k].id : k \in 1..Len(nodeCycles[i])}
                   = graphData.nodes[i].cycleIds
            /\ Len(nodeCycles[i]) = Cardinality(graphData.nodes[i].cycleIds)
            /\ \A k \in 1..Len(nodeCycles[i]) :
                   /\ nodeCycles[i][k].nodes = cycleInfo.cycles[nodeCycles[i][k].id + 1].nodes
                   /\ nodeCycles[i][k].length = cycleInfo.cycles[nodeCycles[i][k].id + 1].length

\* a node on two reported cycles, an edge on two, and a node on none, queried
CycleIdsAreExactWitness ==
    /\ cpc = "annotated"
    /\ nodeCycles # <<>>
    /\ \E i \in 1..Len(graphData.nodes) :
           /\ Cardinality(graphData.nodes[i].cycleIds) >= 2
           /\ Len(nodeCycles[i]) >= 2
    /\ \E k \in 1..Len(graphData.edges) : Cardinality(graphData.edges[k].cycleIds) >= 2
    /\ \E i \in 1..Len(graphData.nodes) :
           ~graphData.nodes[i].inCycle /\ nodeCycles[i] = <<>>

(***************************************************************************)
(* Properties of the filter engine                                         *)
(***************************************************************************)
\* the filter state of the latest applyFilters() call
F == appliedFilters[1]

NodeIds == 1..Len(cyGraph.nodes)

DepartmentExcluded(i) ==
    \A k \in 1..Len(F.departments) : F.departments[k] # cyGraph.nodes[i].department

YearOutOfRange(i) ==
    /\ cyGraph.nodes[i].year # NoYear
    /\ (cyGraph.nodes[i].year < F.yearMin \/ cyGraph.nodes[i].year > F.yearMax)

TotalDegree(i) ==
    Cardinality({k \in 1..Len(cyGraph.edges) :
                    cyGraph.edges[k].source = cyGraph.nodes[i].id})
    + Cardinality({k \in 1..Len(cyGraph.edges) :
                    cyGraph.edges[k].target = cyGraph.nodes[i].id})

\* C4: after applyFilters has run with filter state F, a node is hidden
\* exactly when its department is not in F.departments, or it has a known
\* year outside [F.yearMin, F.yearMax], or F.showCyclesOnly holds and it is
\* not in a cycle, or F.showIsolated does not hold and its degree is 0.
\* Nodes without a year are exempt from the year condition; the search
\* string and showLabels play no part.
HiddenIsDisjunction ==
    appliedFilters # NotApplied =>
        \A i \in NodeIds :
            i \in classes.hiddenNodes <=>
                \/ DepartmentExcluded(i)
                \/ YearOutOfRange(i)
                \/ (F.showCyclesOnly /\ ~cyGraph.nodes[i].inCycle)
                \/ (~F.showIsolated /\ TotalDegree(i) = 0)

\* filters with a search string that narrow the year range hide a node for
\* its year and leave one without a year visible
HiddenIsDisjunctionWitness ==
    /\ appliedFilters # NotApplied
    /\ F.searchQuery # <<>>
    /\ \E i \in NodeIds :
          /\ YearOutOfRange(i)
          /\ ~DepartmentExcluded(i)
          /\ i \in classes.hiddenNodes
    /\ \E i \in NodeIds :
          /\ cyGraph.nodes[i].year = NoYear
          /\ i \notin classes.hiddenNodes

EndpointHidden(k) ==
    \E i \in classes.hiddenNodes :
        cyGraph.nodes[i].id \in {cyGraph.edges[k].source, cyGraph.edges[k].target}

\* C5: after applyFilters, an edge is hidden exactly when its source or its
\* target is hidden.
EdgeHiddenIffEndpointHidden ==
    appliedFilters # NotApplied =>
        \A k \in 1..Len(cyGraph.edges) :
            k \in classes.hiddenEdges <=> EndpointHidden(k)

\* an edge hidden for its target alone, next to an edge that stays visible
EdgeHiddenIffEndpointHiddenWitness ==
    /\ appliedFilters # NotApplied
    /\ \E k \in classes.hiddenEdges :
          \A i \in classes.hiddenNodes : cyGraph.nodes[i].id # cyGraph.edges[k].source
    /\ \E k \in 1..Len(cyGraph.edges) : k \notin classes.hiddenEdges

SearchMisses(i) ==
    /\ F.searchQuery # <<>>
    /\ ~includes(toLowerCase(cyGraph.nodes[i].id), toLowerCase(F.searchQuery))
    /\ ~includes(toLowerCase(cyGraph.nodes[i].title), toLowerCase(F.searchQuery))

\* C6: after applyFilters, a node is dimmed exactly when the search string
\* is non-empty and neither its id nor its title contains the string, case
\* ignored, whether or not the node is hidden.
DimmedIffSearchMisses ==
    appliedFilters # NotApplied =>
        \A i \in NodeIds : i \in classes.dimmedNodes <=> SearchMisses(i)

\* the item is a record as saveFilterState writes it
SavedBySaveFilterState ==
    /\ Restores(filterStateItem)
    /\ Property(filterStateItem, "yearMin") <= Property(filterStateItem, "yearMax")

\* C7: when initializeControls finishes with a saved filter state in
\* localStorage, activeFilters has the saved department set, the saved
\* yearMin and yearMax and the saved three flags.
SavedStateRoundTrip ==
    [][(InitializeControls /\ SavedBySaveFilterState) =>
          /\ Members(activeFilters'.departments)
                = Members(Property(filterStateItem, "departments"))
          /\ activeFilters'.yearMin = Property(filterStateItem, "yearMin")
          /\ activeFilters'.yearMax = Property(filterStateItem, "yearMax")
          /\ activeFilters'.showCyclesOnly = Property(filterStateItem, "showCyclesOnly")
          /\ activeFilters'.showLabels = Property(filterStateItem, "showLabels")
          /\ activeFilters'.showIsolated = Property(filterStateItem, "showIsolated")]_vars

\* C14: after resetFilters, whatever the state before, activeFilters allows
\* every department of the graph, spans the full range of the sliders, has an
\* empty search string, showCyclesOnly and showLabels off and showIsolated on;
\* nothing is stored under 'filterState'; no node or edge is hidden or dimmed.
ResetRestoresDefaults ==
    lastOp = "resetFilters" =>
        /\ Members(activeFilters.departments) =
              {cyGraph.nodes[i].department : i \in NodeIds} \ {<<>>}
        /\ activeFilters.yearMin = dom.min
        /\ activeFilters.yearMax = dom.max
        /\ activeFilters.searchQuery = <<>>
        /\ ~activeFilters.showCyclesOnly
        /\ ~activeFilters.showLabels
        /\ activeFilters.showIsolated
        /\ filterStateItem = NoItem
        /\ classes.hiddenNodes = {}
        /\ classes.dimmedNodes = {}
        /\ classes.hiddenEdges = {}

\* a reset on the graph that has years, an isolated node and a node off cycles
ResetRestoresDefaultsWitness ==
    /\ lastOp = "resetFilters"
    /\ \E i \in NodeIds : cyGraph.nodes[i].year # NoYear
    /\ \E i \in NodeIds : TotalDegree(i) = 0
    /\ dom.min < dom.max

\* the text under 'filterState' has the property and it equals value
Stores(key, value) ==
    /\ HasProperty(filterStateItem, key)
    /\ Property(filterStateItem, key) = value

\* C15: after every change of the filter state (department toggle, year
\* change, search change or clear, display-option toggle) the record stored
\* under 'filterState' is the serialization of the full current filter state:
\* departments, yearMin, yearMax, searchQuery and the three flags.
StoredRecordIsFullState ==
    lastOp \in {"onDepartmentFilterChange", "onYearFilterChange", "onSearchInput",
                "keydown", "clearSearch", "onDisplayOptionChange"} =>
        /\ Stores("departments", activeFilters.departments)
        /\ Stores("yearMin", activeFilters.yearMin)
        /\ Stores("yearMax", activeFilters.yearMax)
        /\ Stores("searchQuery", activeFilters.searchQuery)
        /\ Stores("showCyclesOnly", activeFilters.showCyclesOnly)
        /\ Stores("showLabels", activeFilters.showLabels)
        /\ Stores("showIsolated", activeFilters.showIsolated)

\* activeFilters when loadFilterState is called: the initial state with every
\* department of the graph added
FiltersBeforeLoad ==
    [InitialFilters EXCEPT !.departments = SortedDepartments(cyGraph)]

\* the stored item is not JSON, or its year bounds are inverted
MalformedItem ==
    \/ JSONParseThrows(filterStateItem)
    \/ /\ Restores(filterStateItem)
       /\ Property(filterStateItem, "yearMin") > Property(filterStateItem, "yearMax")

\* C16: when the stored filter-state record is malformed, loadFilterState
\* discards it as a whole: it does not throw, and the filter state it leaves
\* (the one applyFilters is called with, if it is called) is the default state
\* from before the call.
MalformedRecordDiscarded ==
    (lastOp = "initializeControls" /\ MalformedItem) =>
        \/ appliedFilters = NotApplied
        \/ F = FiltersBeforeLoad

\* the visibility predicate of a node under a filter state
HiddenUnder(filters, i) ==
    \/ \A k \in 1..Len(filters.departments) :
           filters.departments[k] # cyGraph.nodes[i].department
    \/ /\ cyGraph.nodes[i].year # NoYear
       /\ (cyGraph.nodes[i].year < filters.yearMin \/ cyGraph.nodes[i].year > filters.yearMax)
    \/ (filters.showCyclesOnly /\ ~cyGraph.nodes[i].inCycle)
    \/ (~filters.showIsolated /\ TotalDegree(i) = 0)

\* C24: whenever a handler of the filter controls has returned, page
\* initialisation included, a node is hidden exactly when the visibility
\* predicate on the current activeFilters hides it, and an edge exactly when
\* one of its endpoints is.
VisibilityFollowsState ==
    uiPhase = "ready" =>
        /\ \A i \in NodeIds : i \in classes.hiddenNodes <=> HiddenUnder(activeFilters, i)
        /\ \A k \in 1..Len(cyGraph.edges) :
               k \in classes.hiddenEdges <=>
                   \E i \in NodeIds :
                       /\ HiddenUnder(activeFilters, i)
                       /\ cyGraph.nodes[i].id \in {cyGraph.edges[k].source,
                                                    cyGraph.edges[k].target}

\* C25: whenever a handler has just run applyFilters with filter state F, the
\* hidden and dimmed elements are those a single run with F leaves on a graph
\* without classes, whatever filter states and clicks came before, and one
\* more run with F changes nothing.
ApplyFiltersHistoryIndependent ==
    (appliedFilters # NotApplied
        /\ lastOp \in {"initializeControls", "onDepartmentFilterChange", "keydown",
                       "clearSearch", "onDisplayOptionChange", "resetFilters"}) =>
        LET once == applyFilters(NoClasses, cyGraph, F)
        IN  /\ classes.hiddenNodes = once.hiddenNodes
            /\ classes.hiddenEdges = once.hiddenEdges
            /\ classes.dimmedNodes = once.dimmedNodes
            /\ classes.dimmedEdges = once.dimmedEdges
            /\ applyFilters(classes, cyGraph, F) = classes

\* filters with a search string applied after a click on a node: the node
\* is still highlighted, a node is hidden and a node is dimmed
ApplyFiltersHistoryIndependentWitness ==
    /\ lastOp = "keydown"
    /\ F.searchQuery # <<>>
    /\ classes.highlightedNodes # {}
    /\ classes.hiddenNodes # {}
    /\ classes.dimmedNodes # {}

\* C29: once the page is initialised, activeFilters.yearMin <= yearMax and
\* both equal the values of the two sliders, whatever slider events came
\* before; a slider event moves one handle at most, and a handle dragged past
\* the other stops at the other's value.
YearBoundsOrdered ==
    /\ [](uiPhase = "ready" =>
            /\ activeFilters.yearMin <= activeFilters.yearMax
            /\ activeFilters.yearMin = dom.yearMin
            /\ activeFilters.yearMax = dom.yearMax)
    /\ [][onYearFilterChange =>
            /\ (dom'.yearMin = dom.yearMin \/ dom'.yearMax = dom.yearMax)
            /\ dom'.yearMin <= dom'.yearMax]_vars

\* after a slider event the two handles are at the same year, inside the range
YearBoundsOrderedWitness ==
    /\ lastOp = "onYearFilterChange"
    /\ activeFilters.yearMin = activeFilters.yearMax
    /\ dom.yearMin = dom.yearMax
    /\ dom.min < dom.yearMin
    /\ dom.yearMax < dom.max

\* C21: the debounce timer is always due 300 ms after the last 'input' event;
\* when it fires, that time has passed, the search is recomputed with the text
\* then in the box, and no timer stays pending, so a burst is answered once;
\* Enter recomputes at once and leaves no timer pending.
DebounceRecomputesOnce ==
    /\ [](searchTimeout => timerLeft = DebounceDelay - sinceInput)
    /\ [](~searchTimeout => ~ENABLED SearchTimeoutFires)
    /\ [][SearchTimeoutFires =>
            /\ sinceInput = DebounceDelay
            /\ activeFilters'.searchQuery = trim(toLowerCase(dom.searchInput))
            /\ appliedFilters' = <<activeFilters'>>
            /\ ~searchTimeout']_vars
    /\ [][SearchEnterKey =>
            /\ activeFilters'.searchQuery = trim(toLowerCase(dom.searchInput))
            /\ appliedFilters' = <<activeFilters'>>
            /\ ~searchTimeout']_vars

\* the timer has fired after a burst of two or more events, the second of
\* which emptied the box, and the search was recomputed with the final text
DebounceRecomputesOnceWitness ==
    /\ lastOp = "onSearchInput"
    /\ burst = 2
    /\ ~searchTimeout
    /\ dom.searchInput = <<>>
    /\ activeFilters.searchQuery = <<>>
    /\ appliedFilters = <<activeFilters>>

(***************************************************************************)
(* Properties of the loader                                                *)
(***************************************************************************)
Succeeded(file) == fetched[file] = "ok"

RECURSIVE DocumentsOfSucceeded(_)
\* the documents of the primary files that loaded, in the configured order
DocumentsOfSucceeded(files) ==
    IF files = <<>> THEN <<>>
    ELSE (IF Succeeded(Head(files)) THEN <<DocumentOf(Head(files))>> ELSE <<>>)
         \o DocumentsOfSucceeded(Tail(files))

\* C17: whatever subset of the sources fails to be fetched or parsed,
\* loadDataFiles returns exactly the primary documents that loaded, cache is
\* null exactly when the cache source failed, loadedCount is the number of
\* primary documents loaded and totalCount the number of primary sources.
LoaderSkipsFailedSources ==
    lpc = "done" =>
        /\ loaded.mainFiles = DocumentsOfSucceeded(MainDataFiles)
        /\ loaded.cache = Null <=> ~Succeeded(CacheDataFile)
        /\ Succeeded(CacheDataFile) => loaded.cache = <<DocumentOf(CacheDataFile)>>
        /\ loaded.stats.loadedCount =
              Cardinality({i \in 1..Len(MainDataFiles) : Succeeded(MainDataFiles[i])})
        /\ loaded.stats.totalCount = Len(MainDataFiles)
        /\ loaded.stats.loadedCount <= loaded.stats.totalCount

\* a return after a primary source and the cache failed in different ways while
\* a later primary source loaded
LoaderSkipsFailedSourcesWitness ==
    /\ lpc = "done"
    /\ fetched[MainDataFiles[1]] = "notOk"
    /\ fetched[MainDataFiles[2]] = "ok"
    /\ fetched[MainDataFiles[3]] = "invalidJSON"
    /\ fetched[CacheDataFile] = "rejected"
    /\ loaded.stats.loadedCount = 3

\* the primary documents of the sources that loaded, and the cache if it loaded
SourcesAsConfigured ==
    [mainFiles |-> DocumentsOfSucceeded(MainDataFiles),
     cache |-> IF Succeeded(CacheDataFile) THEN DocumentOf(CacheDataFile) ELSE <<>>]

\* the place in the configuration of the source that holds the document
SourceOfDocument(doc) ==
    CHOOSE i \in 1..Len(MainDataFiles) : DocumentOf(MainDataFiles[i]) = doc

\* C30: in whatever order the fetches of the primary sources complete or
\* fail, the documents handed to buildGraph are in the configured order of
\* their sources, and the graph buildGraph returns is the graph of the
\* contents and failures alone, merged nodes and resolved titles included.
BuiltGraphIgnoresFetchOrder ==
    /\ lpc = "done" =>
           \A a, b \in 1..Len(loaded.mainFiles) :
               a < b => SourceOfDocument(loaded.mainFiles[a])
                            < SourceOfDocument(loaded.mainFiles[b])
    /\ bpc \notin {"unloaded", "threw"} => loadedData = SourcesAsConfigured
    /\ bpc = "built" => graph = buildGraph(SourcesAsConfigured)

\* a graph built after a source was fetched before an earlier-configured
\* one, where the first and the third source (one circular, merged) and the
\* cache loaded and the second source failed
BuiltGraphIgnoresFetchOrderWitness ==
    /\ bpc = "built"
    /\ outOfOrder
    /\ fetched[MainDataFiles[1]] = "ok"
    /\ fetched[MainDataFiles[2]] = "rejected"
    /\ fetched[MainDataFiles[3]] = "ok"
    /\ fetched[CacheDataFile] = "ok"
    /\ Len(graph.nodes) > 0

=============================================================================
